---------------------------- MODULE Spec2Model ----------------------------
(***************************************************************************)
(* A model of the test-harness core of the start-leptos template:          *)
(*   - PortFinder::get_available_port   (e2e-tests/src/utils/port_finder)  *)
(* Each subsystem has its own specification over the shared variables; a   *)
(* specification leaves the variables of the other subsystems unchanged.   *)
(***************************************************************************)
EXTENDS Integers, Sequences, FiniteSets, TLC

(***************************************************************************)
(* Program constants and model bounds.                                     *)
(***************************************************************************)
\* static PORT_COUNTER: AtomicU16 = AtomicU16::new(8000)
PORT_BASE == 8000
\* AtomicU16: fetch_add wraps at 2^16
U16_MOD == 65536
\* The source range is 8000..8999 (upper bound 9000, 1000 ports, 1000 loop
\* iterations).  The model keeps the lower bound and scales the number of
\* ports, and with it the upper bound and the loop count, down to RangeLen.
RangeLen == 2
PORT_LIMIT == PORT_BASE + RangeLen
MaxAttempts == RangeLen
\* number of tasks that call get_available_port
NCallers == 2
\* total number of get_available_port calls started in one behaviour
MaxCalls == 3

\* tests/cucumber_test/src/app_world.rs: static PORT: AtomicU16 = AtomicU16::new(3311)
LEGACY_PORT_BASE == 3311

Callers == 1..NCallers
\* serve_and_wait calls, made one after the other by the same process
NServes == 1
Servers == 1..NServes
Ports == PORT_BASE..(PORT_LIMIT - 1)
NoPort == 0
PortErr == 1

VARIABLES
    \* ---- PortFinder ----
    PORT_COUNTER,   \* the static AtomicU16
    busy,           \* ports on which a bind fails (held by some process)
    ppc,            \* per caller: position in get_available_port
    pport,          \* per caller: the local `port`
    pattempt,       \* per caller: iterations of `for _ in 0..1000` started
    pret,           \* per caller: result of its latest completed call
    pconc,          \* per caller: callers whose call overlapped its latest call
    ncalls,         \* calls started so far
    \* ---- Webdriver / AppWorld (driver process ownership) ----
    harness,        \* which crate runs: "e2e" (e2e-tests) or "legacy" (tests/cucumber_test/src/app_world.rs)
    envWebdriver,   \* the WEBDRIVER environment variable
    envSiteAddr,    \* whether LEPTOS_SITE_ADDR is set (legacy Dotenv)
    PORT,           \* legacy: static PORT: AtomicU16
    SERVER_ADDR,    \* the OnceLock<SocketAddr>: NoPort when unset, else the port of 127.0.0.1:port
    dpc,            \* per session: position in AppWorld::new / Webdriver::new / build_*
    dkind,          \* per session: "chrome" or "gecko"
    dport,          \* per session: the local `port` of build_*
    dchild,         \* per session: the spawned OS process: "none", "running", "exited", "reaped"
    dholds,         \* per session: whether the driver process listens on dport
    downer,         \* per session: who owns the Child handle
    dresult,        \* per session: how AppWorld::new ended
    \* ---- LeptosServer::serve_and_wait / serve / Server::cucumber_setup ----
    mpc,            \* per call: the caller's position in serve_and_wait
    mres,           \* per call: what serve_and_wait returned
    spc,            \* per call: the spawned server task's position
    tx,             \* per call: the oneshot Sender: "none", "held", "sent", "failed", "dropped"
    rxAlive,        \* per call: the oneshot Receiver exists
    elapsed,        \* per call: the deadline of tokio::time::timeout has passed
    abortReq,       \* per call: server_handle.abort() was called
    listener,       \* per call: the port of the TcpListener the server task holds
    late,           \* per call, written by the traced call only: the address was stored when it began
    \* ---- console log capture: the page and AppWorld's goto / get / wait / clear ----
    installed,      \* window.__consoleLoggerInstalled__
    wraps,          \* per console method: the capture wrappers stacked on the original
    norig,          \* invocations of original console methods so far
    nexec,          \* executions of the capture script in the loaded document
    hret,           \* how the last goto_path / clear_console_logs went
    hreset,         \* the navigation of the last goto_path discarded a document with the hook
    storeKey,       \* sessionStorage has the key __consoleLogs__
    store,          \* the array stored under __consoleLogs__
    script,         \* the console calls the page makes, in order
    npage,          \* console calls made so far (Date.now() of the next one)
    hpc,            \* the harness's position in goto_path / wait_for_console_logs / clear
    expected,       \* the argument of wait_for_console_logs
    snapshot,       \* the array the last get_console_logs script returned
    wres,           \* result of the last wait_for_console_logs: "none", "ok", "timeout", "err"
    wlogs,          \* the logs its result carries
    wseen,          \* <<logs>> of the last poll that returned in this wait, else <<>>
    wfailed,        \* a get_console_logs of this wait returned Err
    welapsed,       \* the deadline of its tokio::time::timeout has passed
    npolls,         \* polls started by the current wait
    nops,           \* harness calls started so far
    hgone,          \* written by the noted clear only: the entries clears removed, in order
    hunseen,        \* of those, the ones the matching poll before the clear had not returned
    \* ---- set_server_addr / get_server_addr, called from any task ----
    apc,            \* per task: "idle", "set" (in set_server_addr), "get" (in get_server_addr)
    aarg,           \* per task: the address passed to set_server_addr
    ares,           \* per task: how its last call ended: "none", "set", "got", "panic"
    aval,           \* per task: the address its last get_server_addr returned
    \* ---- benchmark: BenchmarkResults and Statistics::from_timings ----
    timings,        \* BenchmarkResults.timings: name -> samples in ms (a name absent is no key)
    ladd,           \* the arguments of the last add_timing: <<name, duration>>, else <<>>
    printed,        \* what the last print_summary printed: <<name, statistics or NoData>>, ...
    bout,           \* what the last get_timings returned: <<samples>> for Some, <<>> for None
    bname,          \* the name the last get_timings was asked for, "" before the first
    nadds,          \* add_timing calls so far
    sin,            \* the slice a direct Statistics::from_timings call is given
    sout,           \* <<the Statistics the call returned>>, <<>> before it
    \* ---- cucumber_test over a directory of feature files ----
    entries,        \* the directory: per entry its extension and how its run would end
    rpc,            \* position of cucumber_test: "idle", "next", "run", "done"
    rpos,           \* entries read so far
    rran,           \* the entries handed to Cucumber, in order
    rres,           \* how the call ended: "none", "ok", "err", or the process is gone: "exit"
    \* ---- websocket: GenericWebSocketManager and GenericWebsocketBackend ----
    ws,             \* the manager, its connections and their tasks, a record:
                    \*   wsTx          the manager's tx: NoConn for None, else the connection whose sender it holds
                    \*   is_connected  the manager's RwSignal<bool>
                    \*   nconn         channels made by connect() so far
                    \*   wsUp          per connection: the websocket is open
                    \*   wsIn          per connection: requests and stream errors on the way to the backend
                    \*   wsOut         per connection: responses and stream errors on the way to the listening task
                    \*   bpc           per connection: the backend's serve(): "none", "serving", "done"
                    \*   lpc           per connection: the listening task: "none", "connecting", "listening", "ended"
                    \*   bhandled      per connection: the requests handle_request was given, in order
                    \*   bsent         per connection: responses the backend put on its channel
                    \*   wsRet         what the last send() returned
                    \*   wsLast        the manager's last call: "none", "connect", "send", "disconnect"
                    \*   wsDisc        disconnect() was called and connect() has not been since
                    \*   nwsops        manager calls so far
    \* ---- Benchmarks::start (its BenchmarkResults is `timings`) ----
    bstart          \* the call of start, a record:
                    \*   kmode    the template's websocket switch: "ws" or "num"
                    \*   kiter    self.iteration
                    \*   ki       the loop's i, 0 before the loop
                    \*   kpc      position of start: "idle", "nav", "find", "click", "wait", "clear", "done"
                    \*   kname    the benchmark being measured
                    \*   kel      start.elapsed() taken after the wait
                    \*   kres     what start returned: "none", "ok", "err"
                    \*   kout     <<the BenchmarkResults returned>>, <<>> when none was
                    \*   kfail    the step whose error start met, "none" when none
                    \*   kseq     the measurements completed, in order: name, iteration, elapsed
                    \*   kwaits   waits that returned Ok
                    \*   kclears  clears that returned Ok

portVars == <<PORT_COUNTER, busy, ppc, pport, pattempt, pret, pconc, ncalls>>
drvVars == <<harness, envWebdriver, envSiteAddr, PORT, dpc, dkind, dport, dchild,
             dholds, downer, dresult>>
srvVars == <<SERVER_ADDR, mpc, mres, spc, tx, rxAlive, elapsed, abortReq, listener, late>>

\* written by the traced steps only
traceVars == <<nexec, hret, hreset>>

logVars == <<installed, wraps, norig, nexec, hret, hreset, storeKey, store, script, npage, hpc,
             expected, snapshot, wres, wlogs, wseen, wfailed, welapsed, npolls, nops,
             hgone, hunseen>>

addrVars == <<apc, aarg, ares, aval>>

benchVars == <<timings, ladd, printed, bout, bname, nadds, sin, sout>>

runVars == <<entries, rpc, rpos, rran, rres>>

startVars == <<bstart>>

wsVars == <<ws>>

vars == <<portVars, drvVars, srvVars, logVars, addrVars, benchVars, runVars, wsVars, startVars>>

\* what each subsystem's own steps leave alone
notPort == <<drvVars, srvVars, logVars, addrVars, benchVars, runVars, wsVars, startVars>>
notDrv == <<srvVars, logVars, addrVars, benchVars, runVars, wsVars, startVars>>

(***************************************************************************)
(* PortFinder::get_available_port                                          *)
(***************************************************************************)
InFlight == {q \in Callers : ppc[q] # "idle"}

\* the other subsystems at rest
DrvIdle ==
    /\ harness = "e2e"
    /\ envWebdriver = "unset"
    /\ envSiteAddr = TRUE
    /\ PORT = LEGACY_PORT_BASE
    /\ dpc = [s \in Callers |-> "new"]
    /\ dkind = [s \in Callers |-> "none"]
    /\ dport = [s \in Callers |-> NoPort]
    /\ dchild = [s \in Callers |-> "none"]
    /\ dholds = [s \in Callers |-> FALSE]
    /\ downer = [s \in Callers |-> "none"]
    /\ dresult = [s \in Callers |-> "none"]

SrvIdleTasks ==
    /\ mpc = [c \in Callers |-> "idle"]
    /\ mres = [c \in Callers |-> "none"]
    /\ spc = [c \in Callers |-> "none"]
    /\ tx = [c \in Callers |-> "none"]
    /\ rxAlive = [c \in Callers |-> FALSE]
    /\ elapsed = [c \in Callers |-> FALSE]
    /\ abortReq = [c \in Callers |-> FALSE]
    /\ listener = [c \in Callers |-> NoPort]
    /\ late = [c \in Callers |-> FALSE]

SrvIdle ==
    /\ SERVER_ADDR = NoPort
    /\ SrvIdleTasks

\* ['log', 'info', 'warn', 'error', 'debug']
ConsoleMethods == {"log", "info", "warn", "error", "debug"}

LogIdle ==
    /\ installed = FALSE
    /\ wraps = [m \in ConsoleMethods |-> 0]
    /\ norig = 0
    /\ nexec = 0
    /\ hret = "none"
    /\ hreset = FALSE
    /\ storeKey = FALSE
    /\ store = <<>>
    /\ script = <<>>
    /\ npage = 0
    /\ hpc = "idle"
    /\ expected = <<>>
    /\ snapshot = <<>>
    /\ wres = "none"
    /\ wlogs = <<>>
    /\ wseen = <<>>
    /\ wfailed = FALSE
    /\ welapsed = FALSE
    /\ npolls = 0
    /\ nops = 0
    /\ hgone = <<>>
    /\ hunseen = <<>>

AddrIdle ==
    /\ apc = [c \in Callers |-> "idle"]
    /\ aarg = [c \in Callers |-> NoPort]
    /\ ares = [c \in Callers |-> "none"]
    /\ aval = [c \in Callers |-> NoPort]

\* BenchmarkResults::new: timings: HashMap::new(); no call made yet
BenchNew ==
    /\ timings = <<>>
    /\ ladd = <<>>
    /\ printed = <<>>
    /\ bout = <<>>
    /\ bname = ""
    /\ nadds = 0

BenchIdle ==
    /\ BenchNew
    /\ sin = <<>>
    /\ sout = <<>>

RunIdle ==
    /\ entries = <<>>
    /\ rpc = "idle"
    /\ rpos = 0
    /\ rran = <<>>
    /\ rres = "none"

PortIdle ==
    /\ ppc = [p \in Callers |-> "idle"]
    /\ pport = [p \in Callers |-> NoPort]
    /\ pattempt = [p \in Callers |-> 0]
    /\ pret = [p \in Callers |-> NoPort]
    /\ pconc = [p \in Callers |-> {}]
    /\ ncalls = 0

PortInit ==
    /\ PORT_COUNTER = PORT_BASE
    /\ busy \in SUBSET Ports
    /\ PortIdle

\* a task enters get_available_port
PortCallCore(p) ==
    /\ ppc[p] = "idle"
    /\ ncalls < MaxCalls
    /\ ncalls' = ncalls + 1
    /\ ppc' = [ppc EXCEPT ![p] = "fetch"]
    /\ pattempt' = [pattempt EXCEPT ![p] = 0]
    /\ pport' = [pport EXCEPT ![p] = NoPort]
    /\ pret' = [pret EXCEPT ![p] = NoPort]
    /\ pconc' = [q \in Callers |->
                    IF q = p THEN InFlight
                    ELSE IF q \in InFlight THEN pconc[q] \cup {p}
                    ELSE pconc[q] \ {p}]
    /\ UNCHANGED PORT_COUNTER

PortCall(p) ==
    /\ PortCallCore(p)
    /\ UNCHANGED <<busy, notPort>>

\* let port = PORT_COUNTER.fetch_add(1, SeqCst); if port >= 9000 ...
FetchAdd(c) == (c + 1) % U16_MOD

PortFetch_Uncounted(p) ==
    /\ ppc[p] = "fetch"
    /\ pport' = [pport EXCEPT ![p] = PORT_COUNTER]
    /\ PORT_COUNTER' = FetchAdd(PORT_COUNTER)
    /\ ppc' = [ppc EXCEPT ![p] = IF PORT_COUNTER >= PORT_LIMIT THEN "reset" ELSE "bind"]
    /\ UNCHANGED <<busy, pattempt, pret, pconc, ncalls, notPort>>

PortFetch(p) ==
    /\ ppc[p] = "fetch"
    /\ pattempt[p] < MaxAttempts
    /\ pattempt' = [pattempt EXCEPT ![p] = @ + 1]
    /\ pport' = [pport EXCEPT ![p] = PORT_COUNTER]
    /\ PORT_COUNTER' = FetchAdd(PORT_COUNTER)
    /\ ppc' = [ppc EXCEPT ![p] = IF PORT_COUNTER >= PORT_LIMIT THEN "reset" ELSE "bind"]
    /\ UNCHANGED <<busy, pret, pconc, ncalls, notPort>>

PortReset_NoStore(p) ==
    /\ ppc[p] = "reset"
    /\ ppc' = [ppc EXCEPT ![p] = "fetch"]
    /\ UNCHANGED <<PORT_COUNTER, busy, pport, pattempt, pret, pconc, ncalls, notPort>>

\* PORT_COUNTER.store(8000, SeqCst); continue
PortReset(p) ==
    /\ ppc[p] = "reset"
    /\ PORT_COUNTER' = PORT_BASE
    /\ ppc' = [ppc EXCEPT ![p] = "fetch"]
    /\ UNCHANGED <<busy, pport, pattempt, pret, pconc, ncalls, notPort>>

\* TcpListener::bind(("127.0.0.1", port)).await.is_ok(): the probe listener is a
\* temporary of the condition and is released before the call returns
BindOk(port, held) == port \notin held

PortBind(p) ==
    /\ ppc[p] = "bind"
    /\ IF BindOk(pport[p], busy)
       THEN /\ ppc' = [ppc EXCEPT ![p] = "idle"]
            /\ pret' = [pret EXCEPT ![p] = pport[p]]
       ELSE /\ ppc' = [ppc EXCEPT ![p] = "fetch"]
            /\ pret' = pret
    /\ UNCHANGED <<PORT_COUNTER, busy, pport, pattempt, pconc, ncalls, notPort>>

\* the loop ran 1000 times: Err("Could not find available port ...")
PortExhausted(p) ==
    /\ ppc[p] = "fetch"
    /\ pattempt[p] = MaxAttempts
    /\ ppc' = [ppc EXCEPT ![p] = "idle"]
    /\ pret' = [pret EXCEPT ![p] = PortErr]
    /\ UNCHANGED <<PORT_COUNTER, busy, pport, pattempt, pconc, ncalls, notPort>>


(***************************************************************************)
(* Webdriver::new, build_chromedriver, build_geckodriver, AppWorld::new    *)
(* and the end of an AppWorld, for the e2e-tests crate and for the older   *)
(* tests/cucumber_test/src/app_world.rs (which has impl Drop for AppWorld).*)
(***************************************************************************)
\* a value of the variable that is not valid Unicode (any bytes can be set)
NotUnicode == "<not unicode>"

EnvValues ==
    {"unset", "chromedriver", "Chrome", "geckodriver", "GECKO", "safari", NotUnicode}

\* std::env::var is Err(NotPresent) for an unset variable and Err(NotUnicode(..))
\* for a value that is not valid Unicode
EnvVarErr(v) == v \in {"unset", NotUnicode}

\* str::to_lowercase, on the strings the model uses
ToLowercase(v) ==
    CASE v = "Chrome" -> "chrome"
      [] v = "GECKO" -> "gecko"
      [] v = "LOG" -> "log"
      [] v = "Error" -> "error"
      [] OTHER -> v

\* Webdriver::new: the match on env::var("WEBDRIVER")
SelectDriver(v) ==
    IF EnvVarErr(v) THEN "chrome"
    ELSE CASE ToLowercase(v) \in {"chromedriver", "chrome"} -> "chrome"
           [] ToLowercase(v) \in {"geckodriver", "gecko"} -> "gecko"
           [] OTHER -> "invalid"

\* legacy AppWorld::new: Dotenv::new()? then the match on webdriver.as_ref()
LegacySelectDriver(v, siteAddrSet) ==
    IF EnvVarErr(v) \/ ~siteAddrSet THEN "invalid"
    ELSE CASE v = "geckodriver" -> "gecko"
           [] v = "chromedriver" -> "chrome"
           [] OTHER -> "invalid"

\* Dropping a Child handle.  Neither tokio::process::Child (spawned without
\* kill_on_drop(true)) nor std::process::Child kills the process on drop.
DropChild(child) == child

\* impl Drop for AppWorld (legacy): self.child.kill(); self.child.wait().
\* The e2e-tests AppWorld and Webdriver have no Drop impl: their fields are
\* dropped, the Child among them.
DropAppWorld(h, child) ==
    IF h = "legacy"
    THEN (IF child \in {"running", "exited"} THEN "reaped" ELSE child)
    ELSE DropChild(child)

\* the port a driver process gives back when it ends
Release(s) == IF dholds[s] THEN busy \ {dport[s]} ELSE busy

DrvInit ==
    /\ harness \in {"e2e", "legacy"}
    /\ envWebdriver \in EnvValues
    /\ envSiteAddr \in (IF harness = "legacy" THEN BOOLEAN ELSE {TRUE})
    /\ PORT = LEGACY_PORT_BASE
    /\ dpc = [s \in Callers |-> "new"]
    /\ dkind = [s \in Callers |-> "none"]
    /\ dport = [s \in Callers |-> NoPort]
    /\ dchild = [s \in Callers |-> "none"]
    /\ dholds = [s \in Callers |-> FALSE]
    /\ downer = [s \in Callers |-> "none"]
    /\ dresult = [s \in Callers |-> "none"]

\* e2e AppWorld::new -> Webdriver::new -> build_*: up to the call of
\* PortFinder::get_available_port
DrvNew(s) ==
    /\ harness = "e2e"
    /\ dpc[s] = "new"
    /\ IF SelectDriver(envWebdriver) = "invalid"
       THEN /\ dpc' = [dpc EXCEPT ![s] = "done"]
            /\ dresult' = [dresult EXCEPT ![s] = "err_invalid"]
            /\ UNCHANGED <<dkind, portVars>>
       ELSE /\ dkind' = [dkind EXCEPT ![s] = SelectDriver(envWebdriver)]
            /\ dpc' = [dpc EXCEPT ![s] = "port"]
            /\ PortCallCore(s)
            /\ UNCHANGED <<busy, dresult>>
    /\ UNCHANGED <<harness, envWebdriver, envSiteAddr, PORT, dport, dchild, dholds, downer>>
    /\ UNCHANGED notDrv

\* get_available_port has returned: .map_err(..)?
DrvPortDone(s) ==
    /\ dpc[s] = "port"
    /\ ppc[s] = "idle"
    /\ IF pret[s] = PortErr
       THEN /\ dpc' = [dpc EXCEPT ![s] = "done"]
            /\ dresult' = [dresult EXCEPT ![s] = "err_port"]
            /\ dport' = dport
       ELSE /\ dpc' = [dpc EXCEPT ![s] = "spawn"]
            /\ dport' = [dport EXCEPT ![s] = pret[s]]
            /\ dresult' = dresult
    /\ UNCHANGED <<harness, envWebdriver, envSiteAddr, PORT, dkind, dchild, dholds, downer>>
    /\ UNCHANGED <<portVars, notDrv>>

\* legacy AppWorld::new: Dotenv, then build_chromedriver (PORT.load) or
\* build_geckodriver (PORT.fetch_add(1))
LegacyNew(s) ==
    /\ harness = "legacy"
    /\ dpc[s] = "new"
    /\ LET k == LegacySelectDriver(envWebdriver, envSiteAddr) IN
       IF k = "invalid"
       THEN /\ dpc' = [dpc EXCEPT ![s] = "done"]
            /\ dresult' = [dresult EXCEPT ![s] = "err_invalid"]
            /\ UNCHANGED <<dkind, dport, PORT>>
       ELSE /\ dkind' = [dkind EXCEPT ![s] = k]
            /\ dport' = [dport EXCEPT ![s] = PORT]
            /\ PORT' = IF k = "gecko" THEN FetchAdd(PORT) ELSE PORT
            /\ dpc' = [dpc EXCEPT ![s] = "spawn"]
            /\ dresult' = dresult
    /\ UNCHANGED <<harness, envWebdriver, envSiteAddr, dchild, dholds, downer>>
    /\ UNCHANGED <<portVars, notDrv>>

\* Command::new(..).arg("--port=..").spawn()?
DrvSpawn(s) ==
    /\ dpc[s] = "spawn"
    /\ \E ok \in BOOLEAN :
        IF ok
        THEN /\ dchild' = [dchild EXCEPT ![s] = "running"]
             /\ downer' = [downer EXCEPT ![s] = "local"]
             /\ dpc' = [dpc EXCEPT ![s] =
                    IF harness = "e2e" /\ dkind[s] = "chrome" THEN "sleep" ELSE "connect"]
             /\ dresult' = dresult
        ELSE /\ dpc' = [dpc EXCEPT ![s] = "done"]
             /\ dresult' = [dresult EXCEPT ![s] = "err_spawn"]
             /\ UNCHANGED <<dchild, downer>>
    /\ UNCHANGED <<harness, envWebdriver, envSiteAddr, PORT, dkind, dport, dholds>>
    /\ UNCHANGED <<portVars, notDrv>>

\* tokio::time::sleep(500ms) and the parse of the capabilities literal, which
\* is valid JSON and cannot fail
DrvSleep(s) ==
    /\ dpc[s] = "sleep"
    /\ dpc' = [dpc EXCEPT ![s] = "connect"]
    /\ UNCHANGED <<harness, envWebdriver, envSiteAddr, PORT, dkind, dport, dchild,
                   dholds, downer, dresult>>
    /\ UNCHANGED <<portVars, notDrv>>

\* ClientBuilder::native().capabilities(..).connect(..).await?
\* On Err the function returns and its local `child` is dropped.
DrvConnect(s) ==
    /\ dpc[s] = "connect"
    /\ \E ok \in BOOLEAN :
        IF ok
        THEN /\ dchild[s] = "running"
             /\ dholds[s]
             /\ downer' = [downer EXCEPT ![s] = IF harness = "e2e" THEN "webdriver" ELSE "world"]
             /\ dpc' = [dpc EXCEPT ![s] = IF harness = "e2e" THEN "addr" ELSE "live"]
             /\ dresult' = [dresult EXCEPT ![s] = IF harness = "e2e" THEN "none" ELSE "ok"]
             /\ dchild' = dchild
        ELSE /\ downer' = [downer EXCEPT ![s] = "dropped_local"]
             /\ dchild' = [dchild EXCEPT ![s] = DropChild(dchild[s])]
             /\ dpc' = [dpc EXCEPT ![s] = "done"]
             /\ dresult' = [dresult EXCEPT ![s] = "err_connect"]
    /\ UNCHANGED <<harness, envWebdriver, envSiteAddr, PORT, dkind, dport, dholds>>
    /\ UNCHANGED <<portVars, notDrv>>

GetPanics_ReturnsDefault(cur) == FALSE

\* get_server_addr: *SERVER_ADDR.get().expect("Server address not initialized")
GetPanics(cur) == cur = NoPort

\* e2e AppWorld::new: let addr = get_server_addr(); Ok(Self { webdriver, addr })
\* get_server_addr panics when the address is unset; the unwinding drops `webdriver`.
DrvGetAddr(s) ==
    /\ dpc[s] = "addr"
    /\ IF ~GetPanics(SERVER_ADDR)
       THEN /\ downer' = [downer EXCEPT ![s] = "world"]
            /\ dpc' = [dpc EXCEPT ![s] = "live"]
            /\ dresult' = [dresult EXCEPT ![s] = "ok"]
            /\ dchild' = dchild
       ELSE /\ downer' = [downer EXCEPT ![s] = "dropped_webdriver"]
            /\ dchild' = [dchild EXCEPT ![s] = DropChild(dchild[s])]
            /\ dpc' = [dpc EXCEPT ![s] = "done"]
            /\ dresult' = [dresult EXCEPT ![s] = "panic_addr"]
    /\ UNCHANGED <<harness, envWebdriver, envSiteAddr, PORT, dkind, dport, dholds>>
    /\ UNCHANGED <<portVars, notDrv>>

\* the AppWorld goes out of scope (end of the scenario, error return or panic)
DrvDropWorld(s) ==
    /\ dpc[s] = "live"
    /\ downer' = [downer EXCEPT ![s] = "dropped_world"]
    /\ dchild' = [dchild EXCEPT ![s] = DropAppWorld(harness, dchild[s])]
    /\ dholds' = [dholds EXCEPT ![s] = IF dchild'[s] = "running" THEN dholds[s] ELSE FALSE]
    /\ busy' = IF dchild'[s] = "running" THEN busy ELSE Release(s)
    /\ dpc' = [dpc EXCEPT ![s] = "done"]
    /\ UNCHANGED <<harness, envWebdriver, envSiteAddr, PORT, dkind, dport, dresult>>
    /\ UNCHANGED <<PORT_COUNTER, ppc, pport, pattempt, pret, pconc, ncalls, notDrv>>

\* the driver process binds --port: it listens if the port is free and exits if not
ChildBind(s) ==
    /\ dchild[s] = "running"
    /\ ~dholds[s]
    /\ IF BindOk(dport[s], busy)
       THEN /\ busy' = busy \cup {dport[s]}
            /\ dholds' = [dholds EXCEPT ![s] = TRUE]
            /\ dchild' = dchild
       ELSE /\ dchild' = [dchild EXCEPT ![s] = "exited"]
            /\ UNCHANGED <<busy, dholds>>
    /\ UNCHANGED <<harness, envWebdriver, envSiteAddr, PORT, dpc, dkind, dport, downer, dresult>>
    /\ UNCHANGED <<PORT_COUNTER, ppc, pport, pattempt, pret, pconc, ncalls, notDrv>>

\* the driver process ends by itself (crash, signal from outside)
ChildExit(s) ==
    /\ dchild[s] = "running"
    /\ dholds[s]
    /\ dchild' = [dchild EXCEPT ![s] = "exited"]
    /\ dholds' = [dholds EXCEPT ![s] = FALSE]
    /\ busy' = Release(s)
    /\ UNCHANGED <<harness, envWebdriver, envSiteAddr, PORT, dpc, dkind, dport, downer, dresult>>
    /\ UNCHANGED <<PORT_COUNTER, ppc, pport, pattempt, pret, pconc, ncalls, notDrv>>

\* ports held by the harness's own processes: server listeners and drivers
OwnPorts ==
    {listener[c] : c \in Callers} \cup {dport[s] : s \in {t \in Callers : dholds[t]}}

\* a process outside the harness binds a free port of the range, or gives one back
EnvTake(port) ==
    /\ port \notin busy
    /\ busy' = busy \cup {port}
    /\ UNCHANGED <<PORT_COUNTER, ppc, pport, pattempt, pret, pconc, ncalls, notPort>>

EnvRelease(port) ==
    /\ port \in busy
    /\ port \notin OwnPorts
    /\ busy' = busy \ {port}
    /\ UNCHANGED <<PORT_COUNTER, ppc, pport, pattempt, pret, pconc, ncalls, notPort>>

PortNext ==
    \/ \E p \in Callers :
        \/ PortCall(p)
        \/ PortFetch(p)
        \/ PortReset(p)
        \/ PortBind(p)
        \/ PortExhausted(p)
    \/ \E port \in Ports :
        \/ EnvTake(port)
        \/ EnvRelease(port)

DrvNext ==
    \/ \E port \in Ports :
        \/ EnvTake(port)
        \/ EnvRelease(port)
    \/ \E s \in Callers :
        \/ DrvNew(s)
        \/ PortFetch(s)
        \/ PortReset(s)
        \/ PortBind(s)
        \/ PortExhausted(s)
        \/ DrvPortDone(s)
        \/ LegacyNew(s)
        \/ DrvSpawn(s)
        \/ DrvSleep(s)
        \/ DrvConnect(s)
        \/ DrvGetAddr(s)
        \/ DrvDropWorld(s)
        \/ ChildBind(s)
        \/ ChildExit(s)

(***************************************************************************)
(* LeptosServer::serve_and_wait, LeptosServer::serve and                   *)
(* Server::cucumber_setup.  Call c of serve_and_wait spawns server task c, *)
(* which is caller c of get_available_port.  Calls follow one another; the *)
(* server tasks of earlier calls keep running.                             *)
(***************************************************************************)
notSrvTasks == <<drvVars, logVars, addrVars, benchVars, runVars, wsVars, startVars>>
notSrv == <<notSrvTasks, late>>

\* serve_and_wait is entered: Self::compile_frontend().await
MainCallCore(c) ==
    /\ mpc[c] = "idle"
    /\ \A b \in Servers : b < c => mpc[b] = "done"
    /\ mpc' = [mpc EXCEPT ![c] = "compile"]
    /\ UNCHANGED <<SERVER_ADDR, mres, spc, tx, rxAlive, elapsed, abortReq, listener>>
    /\ UNCHANGED <<portVars, notSrvTasks>>

MainCall(c) ==
    /\ MainCallCore(c)
    /\ late' = late

\* the same, noting whether SERVER_ADDR was already set when the call began
MainCallTraced(c) ==
    /\ MainCallCore(c)
    /\ late' = [late EXCEPT ![c] = SERVER_ADDR # NoPort]

\* compile_frontend returned: `?`, then oneshot::channel(), tokio::spawn(..)
\* and the start of tokio::time::timeout(Duration::from_secs(timeout), rx)
MainSpawn(c) ==
    /\ mpc[c] = "compile"
    /\ \E ok \in BOOLEAN :
        IF ok
        THEN /\ mpc' = [mpc EXCEPT ![c] = "wait"]
             /\ spc' = [spc EXCEPT ![c] = "start"]
             /\ tx' = [tx EXCEPT ![c] = "held"]
             /\ rxAlive' = [rxAlive EXCEPT ![c] = TRUE]
             /\ mres' = mres
        ELSE /\ mpc' = [mpc EXCEPT ![c] = "done"]
             /\ mres' = [mres EXCEPT ![c] = "err_compile"]
             /\ UNCHANGED <<spc, tx, rxAlive>>
    /\ UNCHANGED <<SERVER_ADDR, elapsed, abortReq, listener>>
    /\ UNCHANGED <<portVars, notSrv>>

\* the timer of tokio::time::timeout reaches its deadline
Elapse(c) ==
    /\ mpc[c] = "wait"
    /\ ~elapsed[c]
    /\ elapsed' = [elapsed EXCEPT ![c] = TRUE]
    /\ UNCHANGED <<SERVER_ADDR, mpc, mres, spc, tx, rxAlive, abortReq, listener>>
    /\ UNCHANGED <<portVars, notSrv>>

\* One poll of timeout(.., rx): Timeout::poll polls the receiver first and the
\* timer only when the receiver is pending.  The receiver is ready with Ok(())
\* once the value was sent and with Err(RecvError) once the sender was dropped.
WaitOutcome_TimerFirst(t, el) ==
    IF el THEN "err_timeout"
    ELSE IF t = "sent" THEN "ok"
    ELSE IF t = "dropped" THEN "err_crashed"
    ELSE "pending"

WaitOutcome_NoDeadline(t, el) ==
    IF t = "sent" THEN "ok"
    ELSE IF t = "dropped" THEN "err_crashed"
    ELSE "pending"

WaitOutcome(t, el) ==
    IF t = "sent" THEN "ok"
    ELSE IF t = "dropped" THEN "err_crashed"
    ELSE IF el THEN "err_timeout"
    ELSE "pending"

\* the match of serve_and_wait: both error arms call server_handle.abort()
AbortOn_TimeoutArmForgets(r) == r = "err_crashed"

AbortOn(r) == r \in {"err_crashed", "err_timeout"}

\* the wait resolves and serve_and_wait returns; rx is consumed or dropped
MainWake(c) ==
    /\ mpc[c] = "wait"
    /\ WaitOutcome(tx[c], elapsed[c]) # "pending"
    /\ mres' = [mres EXCEPT ![c] = WaitOutcome(tx[c], elapsed[c])]
    /\ abortReq' = [abortReq EXCEPT ![c] = AbortOn(WaitOutcome(tx[c], elapsed[c]))]
    /\ rxAlive' = [rxAlive EXCEPT ![c] = FALSE]
    /\ mpc' = [mpc EXCEPT ![c] = "done"]
    /\ UNCHANGED <<SERVER_ADDR, spc, tx, elapsed, listener>>
    /\ UNCHANGED <<portVars, notSrv>>

\* the spawned task runs serve(tx) up to PortFinder::get_available_port().await
SrvStart(c) ==
    /\ spc[c] = "start"
    /\ spc' = [spc EXCEPT ![c] = "port"]
    /\ PortCallCore(c)
    /\ UNCHANGED <<busy, SERVER_ADDR, mpc, mres, tx, rxAlive, elapsed, abortReq, listener>>
    /\ UNCHANGED notSrv

\* a Sender that goes out of scope unsent closes the channel
DropSender(t) == IF t = "held" THEN "dropped" ELSE t

SetPanics_Never(cur) == FALSE

\* set_server_addr: SERVER_ADDR.set(addr).expect("Server address already set")
SetPanics(cur) == cur # NoPort

OnceLockSet_Forgets(cur, addr) == cur

OnceLockSet_Overwrites(cur, addr) == addr

\* OnceLock::set: stores addr in an empty cell; a full cell keeps its value
OnceLockSet(cur, addr) == IF cur = NoPort THEN addr ELSE cur

SrvPortDone_DefaultsOnError(c) ==
    /\ spc[c] = "port"
    /\ ppc[c] = "idle"
    /\ IF SetPanics(SERVER_ADDR)
       THEN /\ spc' = [spc EXCEPT ![c] = "panicked"]
            /\ tx' = [tx EXCEPT ![c] = DropSender(tx[c])]
            /\ SERVER_ADDR' = SERVER_ADDR
       ELSE /\ SERVER_ADDR' = IF pret[c] = PortErr THEN PORT_BASE ELSE pret[c]
            /\ spc' = [spc EXCEPT ![c] = "setup"]
            /\ tx' = tx
    /\ UNCHANGED <<mpc, mres, rxAlive, elapsed, abortReq, listener>>
    /\ UNCHANGED <<portVars, notSrv>>

\* get_available_port returned: `?` on Err, else set_server_addr(addr), which
\* panics when the address is already set; either way `sender` is dropped
SrvPortDone(c) ==
    /\ spc[c] = "port"
    /\ ppc[c] = "idle"
    /\ IF pret[c] = PortErr
       THEN /\ spc' = [spc EXCEPT ![c] = "ended"]
            /\ tx' = [tx EXCEPT ![c] = DropSender(tx[c])]
            /\ SERVER_ADDR' = SERVER_ADDR
       ELSE IF SetPanics(SERVER_ADDR)
       THEN /\ spc' = [spc EXCEPT ![c] = "panicked"]
            /\ tx' = [tx EXCEPT ![c] = DropSender(tx[c])]
            /\ SERVER_ADDR' = SERVER_ADDR
       ELSE /\ SERVER_ADDR' = OnceLockSet(SERVER_ADDR, pret[c])
            /\ spc' = [spc EXCEPT ![c] = "setup"]
            /\ tx' = tx
    /\ UNCHANGED <<mpc, mres, rxAlive, elapsed, abortReq, listener>>
    /\ UNCHANGED <<portVars, notSrv>>

\* serve: cargo_toml_path.to_str()?; cucumber_setup: get_configuration(..)?,
\* the parent directory, tokio::fs::symlink(..).await?  Each may fail.
SrvSetup(c) ==
    /\ spc[c] = "setup"
    /\ \E ok \in BOOLEAN :
        IF ok
        THEN /\ spc' = [spc EXCEPT ![c] = "bind"]
             /\ tx' = tx
        ELSE /\ spc' = [spc EXCEPT ![c] = "ended"]
             /\ tx' = [tx EXCEPT ![c] = DropSender(tx[c])]
    /\ UNCHANGED <<SERVER_ADDR, mpc, mres, rxAlive, elapsed, abortReq, listener>>
    /\ UNCHANGED <<portVars, notSrv>>

\* let listener = TcpListener::bind(&addr).await.map_err(..)?
SrvBind_IgnoresError(c) ==
    /\ spc[c] = "bind"
    /\ spc' = [spc EXCEPT ![c] = "send"]
    /\ IF BindOk(SERVER_ADDR, busy)
       THEN /\ listener' = [listener EXCEPT ![c] = SERVER_ADDR]
            /\ busy' = busy \cup {SERVER_ADDR}
       ELSE UNCHANGED <<listener, busy>>
    /\ UNCHANGED <<SERVER_ADDR, mpc, mres, tx, rxAlive, elapsed, abortReq>>
    /\ UNCHANGED <<PORT_COUNTER, ppc, pport, pattempt, pret, pconc, ncalls, notSrv>>

SrvBind(c) ==
    /\ spc[c] = "bind"
    /\ IF BindOk(SERVER_ADDR, busy)
       THEN /\ listener' = [listener EXCEPT ![c] = SERVER_ADDR]
            /\ busy' = busy \cup {SERVER_ADDR}
            /\ spc' = [spc EXCEPT ![c] = "send"]
            /\ tx' = tx
       ELSE /\ spc' = [spc EXCEPT ![c] = "ended"]
            /\ tx' = [tx EXCEPT ![c] = DropSender(tx[c])]
            /\ UNCHANGED <<listener, busy>>
    /\ UNCHANGED <<SERVER_ADDR, mpc, mres, rxAlive, elapsed, abortReq>>
    /\ UNCHANGED <<PORT_COUNTER, ppc, pport, pattempt, pret, pconc, ncalls, notSrv>>

\* oneshot::Sender::send consumes the sender; it stores the value if the
\* receiver still exists and fails, returning the value, if it was dropped
OneshotSend_AlwaysStores(rx) == "sent"

OneshotSend(rx) == IF rx THEN "sent" ELSE "failed"

\* let _ = sender.send(());
SrvSend(c) ==
    /\ spc[c] = "send"
    /\ tx' = [tx EXCEPT ![c] = OneshotSend(rxAlive[c])]
    /\ spc' = [spc EXCEPT ![c] = "serve"]
    /\ UNCHANGED <<SERVER_ADDR, mpc, mres, rxAlive, elapsed, abortReq, listener>>
    /\ UNCHANGED <<portVars, notSrv>>

\* axum::serve(listener, ..).await: the accept loop, which does not return
SrvServe(c) ==
    /\ spc[c] = "serve"
    /\ spc' = [spc EXCEPT ![c] = "serving"]
    /\ UNCHANGED <<SERVER_ADDR, mpc, mres, tx, rxAlive, elapsed, abortReq, listener>>
    /\ UNCHANGED <<portVars, notSrv>>

\* the places where the server task is not running: spawned and not yet
\* polled, or suspended in an .await
AtAwait(c) ==
    \/ spc[c] = "port" /\ ppc[c] = "bind"
    \/ spc[c] \in {"start", "setup", "bind", "serving"}

\* JoinHandle::abort takes effect when the task is suspended: the task's future
\* is dropped, and with it the sender, the listener and the pending port probe
SrvCancel(c) ==
    /\ abortReq[c]
    /\ AtAwait(c)
    /\ spc' = [spc EXCEPT ![c] = "cancelled"]
    /\ tx' = [tx EXCEPT ![c] = DropSender(tx[c])]
    /\ listener' = [listener EXCEPT ![c] = NoPort]
    /\ busy' = IF listener[c] # NoPort THEN busy \ {listener[c]} ELSE busy
    /\ ppc' = [ppc EXCEPT ![c] = "idle"]
    /\ UNCHANGED <<SERVER_ADDR, mpc, mres, rxAlive, elapsed, abortReq>>
    /\ UNCHANGED <<PORT_COUNTER, pport, pattempt, pret, pconc, ncalls, notSrv>>

SrvNext ==
    \/ \E port \in Ports :
        \/ EnvTake(port)
        \/ EnvRelease(port)
    \/ \E c \in Servers :
        \/ MainCall(c)
        \/ MainSpawn(c)
        \/ Elapse(c)
        \/ MainWake(c)
        \/ SrvStart(c)
        \/ PortFetch(c)
        \/ PortReset(c)
        \/ PortBind(c)
        \/ PortExhausted(c)
        \/ SrvPortDone(c)
        \/ SrvSetup(c)
        \/ SrvBind(c)
        \/ SrvSend(c)
        \/ SrvServe(c)
        \/ SrvCancel(c)

(***************************************************************************)
(* Console log capture: the script goto_path injects, the page's console   *)
(* calls, get_console_logs, wait_for_console_logs and clear_console_logs.  *)
(* A string is a sequence of one-character strings, so that trimming is    *)
(* computed.                                                               *)
(***************************************************************************)
\* longest page script, and most entries of `expected`
MaxLogs == 2
\* polls one wait_for_console_logs may start
MaxPolls == 2
\* harness calls (goto_path, wait_for_console_logs, clear_console_logs)
MaxOps == 2

StrA == <<"A">>
StrB == <<"B">>
StrPadA == <<" ", "A", " ">>

IsSpace(ch) == ch = " "

RECURSIVE TrimStart(_)
TrimStart(str) ==
    IF str # <<>> /\ IsSpace(Head(str)) THEN TrimStart(Tail(str)) ELSE str

RECURSIVE TrimEnd(_)
TrimEnd(str) ==
    IF str # <<>> /\ IsSpace(str[Len(str)])
    THEN TrimEnd(SubSeq(str, 1, Len(str) - 1))
    ELSE str

\* str::trim
Trim(str) == TrimEnd(TrimStart(str))

\* ConsoleLog::new(level, message)
ConsoleLogNew(level, message) ==
    [level |-> ToLowercase(level), message |-> <<Trim(message)>>]

\* a console call of the page: the method and its arguments, already strings
PageCalls ==
    { [method |-> "log", args |-> <<StrA>>],
      [method |-> "log", args |-> <<StrB>>],
      [method |-> "error", args |-> <<StrPadA>>] }

\* the entries a step's table can ask for
ExpectedEntries ==
    { ConsoleLogNew("LOG", StrPadA),
      ConsoleLogNew("Error", StrA) }

SeqsUpTo(S, n) == UNION {[1..k -> S] : k \in 0..n}

\* the record the wrapper pushes: {level: method, message: args.map(..), timestamp: Date.now()}
Captured(call, now) ==
    [level |-> call.method, message |-> call.args, timestamp |-> now]

\* sessionStorage.getItem('__consoleLogs__') || '[]', parsed
StoredLogs == IF storeKey THEN store ELSE <<>>

\* serde_json::from_value::<Vec<ConsoleLog>>: level and message are kept,
\* every message part is trimmed (deserialize_trimmed_strings), timestamp is ignored
Deserialize(arr) ==
    [i \in 1..Len(arr) |->
        [level |-> arr[i].level,
         message |-> [j \in 1..Len(arr[i].message) |-> Trim(arr[i].message[j])]]]

IsPrefix(a, b) == Len(a) <= Len(b) /\ SubSeq(b, 1, Len(a)) = a

LogsMatch_Prefix(logs, exp) == IsPrefix(exp, logs)

LogsMatch_SameLevels(logs, exp) ==
    /\ Len(logs) = Len(exp)
    /\ \A i \in 1..Len(logs) : logs[i].level = exp[i].level

\* logs.as_slice() == expected
LogsMatch(logs, exp) == logs = exp

LogInit ==
    /\ installed = FALSE
    /\ wraps = [m \in ConsoleMethods |-> 0]
    /\ norig = 0
    /\ nexec = 0
    /\ hret = "none"
    /\ hreset = FALSE
    /\ storeKey = FALSE
    /\ store = <<>>
    /\ script \in SeqsUpTo(PageCalls, MaxLogs)
    /\ npage = 0
    /\ hpc = "idle"
    /\ expected \in SeqsUpTo(ExpectedEntries, MaxLogs)
    /\ snapshot = <<>>
    /\ wres = "none"
    /\ wlogs = <<>>
    /\ wseen = <<>>
    /\ wfailed = FALSE
    /\ welapsed = FALSE
    /\ npolls = 0
    /\ nops = 0
    /\ hgone = <<>>
    /\ hunseen = <<>>

notLogCalls == <<portVars, drvVars, srvVars, addrVars, benchVars, runVars, wsVars, startVars>>
notLog == <<notLogCalls, hgone, hunseen>>

\* what `depth` stacked wrappers leave in the array when the outermost is
\* called: each pushes the record and calls the one below it
RECURSIVE Pushed(_, _, _)
Pushed(logs, rec, depth) ==
    IF depth = 0 THEN logs ELSE Pushed(Append(logs, rec), rec, depth - 1)

\* original.apply(console, args), at the bottom of the stack
OriginalCalls(depth) == 1

PageLog_NeedsKey ==
    /\ npage < Len(script)
    /\ LET call == script[npage + 1]
           depth == wraps[call.method]
       IN  IF depth > 0 /\ ~storeKey
           THEN UNCHANGED <<store, storeKey, norig>>
           ELSE /\ IF depth > 0
                   THEN /\ store' = Pushed(StoredLogs, Captured(call, npage), depth)
                        /\ storeKey' = TRUE
                   ELSE UNCHANGED <<store, storeKey>>
                /\ norig' = norig + OriginalCalls(depth)
    /\ npage' = npage + 1
    /\ UNCHANGED <<script, installed, wraps, nexec, hret, hreset, hpc, expected, snapshot,
                   wres, wlogs, welapsed, npolls, nops>>
    /\ UNCHANGED <<wseen, wfailed>>
    /\ UNCHANGED notLog

\* the page calls console.<method>(args): each wrapper on the method appends
\* the record to the stored array, and the original method is called
PageLog ==
    /\ npage < Len(script)
    /\ LET call == script[npage + 1]
           depth == wraps[call.method]
       IN  /\ IF depth > 0
              THEN /\ store' = Pushed(StoredLogs, Captured(call, npage), depth)
                   /\ storeKey' = TRUE
              ELSE UNCHANGED <<store, storeKey>>
           /\ norig' = norig + OriginalCalls(depth)
    /\ npage' = npage + 1
    /\ UNCHANGED <<script, installed, wraps, nexec, hret, hreset, hpc, expected, snapshot, wres, wlogs,
                   welapsed, npolls, nops>>
    /\ UNCHANGED <<wseen, wfailed>>
    /\ UNCHANGED notLog

\* goto_path: self.webdriver.client.goto(&target_url).await.context(..)?
\* A navigation that loads a document resets the window's state; sessionStorage stays.
GotoNavCore(ok, load) ==
    /\ hpc = "idle"
    /\ nops < MaxOps
    /\ nops' = nops + 1
    /\ hpc' = IF ok THEN "inject" ELSE "idle"
    /\ installed' = IF load THEN FALSE ELSE installed
    /\ wraps' = IF load THEN [m \in ConsoleMethods |-> 0] ELSE wraps
    /\ UNCHANGED norig
    /\ UNCHANGED <<storeKey, store, script, npage, expected, snapshot, wres, wlogs,
                   welapsed, npolls>>
    /\ UNCHANGED <<wseen, wfailed>>
    /\ UNCHANGED notLog

GotoNav ==
    \E ok \in BOOLEAN, load \in BOOLEAN :
        /\ GotoNavCore(ok, load)
        /\ UNCHANGED traceVars

\* the same step, with what happened written down
GotoNavTraced ==
    \E ok \in BOOLEAN, load \in BOOLEAN :
        /\ GotoNavCore(ok, load)
        /\ hret' = IF ok THEN "goto_nav" ELSE "goto_err"
        /\ nexec' = IF load THEN 0 ELSE nexec
        /\ hreset' = (load /\ installed)

ScriptRuns_Unguarded(flag) == TRUE

ScriptRuns_GuardInStorage(flag) == ~flag /\ ~storeKey

\* if (!window.__consoleLoggerInstalled__) { ... }
ScriptRuns(flag) == ~flag

InitStorage_Always(hasKey, logs) == <<>>

\* if (!sessionStorage.getItem('__consoleLogs__')) setItem('__consoleLogs__', '[]'):
\* the stored text of an array, '[]' included, is a non-empty string
InitStorage(hasKey, logs) == IF hasKey THEN logs ELSE <<>>

\* ['log', ...].forEach(method => { const original = console[method]; console[method] = ... })
WrapAll(w) == [m \in ConsoleMethods |-> w[m] + 1]

\* goto_path: self.execute(<the capture script>).await?
GotoInjectCore(ok) ==
    /\ hpc = "inject"
    /\ hpc' = "idle"
    /\ IF ok /\ ScriptRuns(installed)
       THEN /\ installed' = TRUE
            /\ storeKey' = TRUE
            /\ store' = InitStorage(storeKey, store)
            /\ wraps' = WrapAll(wraps)
       ELSE UNCHANGED <<installed, storeKey, store, wraps>>
    /\ UNCHANGED <<norig, script, npage, expected, snapshot, wres, wlogs, welapsed,
                   npolls, nops>>
    /\ UNCHANGED <<wseen, wfailed>>
    /\ UNCHANGED notLog

GotoInject ==
    \E ok \in BOOLEAN :
        /\ GotoInjectCore(ok)
        /\ UNCHANGED traceVars

\* the same step, with what happened written down
GotoInjectTraced ==
    \E ok \in BOOLEAN :
        /\ GotoInjectCore(ok)
        /\ hret' = IF ok THEN "goto_ok" ELSE "goto_err"
        /\ nexec' = IF ok THEN nexec + 1 ELSE nexec
        /\ UNCHANGED hreset

\* wait_for_console_logs(expected, timeout_dur): tokio::time::timeout starts
\* and the loop issues its first get_console_logs
WaitCall ==
    /\ hpc = "idle"
    /\ nops < MaxOps
    /\ nops' = nops + 1
    /\ hpc' = "poll_sent"
    /\ wres' = "none"
    /\ wlogs' = <<>>
    /\ wseen' = <<>>
    /\ wfailed' = FALSE
    /\ welapsed' = FALSE
    /\ npolls' = 1
    /\ UNCHANGED <<installed, storeKey, store, script, npage, expected, snapshot>>
    /\ UNCHANGED <<wraps, norig, nexec, hret, hreset>>
    /\ UNCHANGED notLog

\* the browser runs "return JSON.parse(sessionStorage.getItem(..) || '[]');"
BrowserGet ==
    /\ hpc = "poll_sent"
    /\ snapshot' = StoredLogs
    /\ hpc' = "poll_reply"
    /\ UNCHANGED <<installed, storeKey, store, script, npage, expected, wres, wlogs,
                   welapsed, npolls, nops>>
    /\ UNCHANGED <<wseen, wfailed>>
    /\ UNCHANGED <<wraps, norig, nexec, hret, hreset>>
    /\ UNCHANGED notLog

\* one turn of the loop, once get_console_logs has returned: `?` on its error,
\* `return Ok(logs)` when logs.as_slice() == expected, else the 10ms sleep
PollOutcome_ErrorRetries(ok, logs, exp) ==
    IF ok /\ LogsMatch(logs, exp) THEN "ok" ELSE "sleep"

PollOutcome(ok, logs, exp) ==
    IF ~ok THEN "err"
    ELSE IF LogsMatch(logs, exp) THEN "ok"
    ELSE "sleep"

\* get_console_logs returns inside the loop, with a script or parse error or
\* with the deserialized logs
WaitReply ==
    /\ hpc = "poll_reply"
    /\ \E ok \in BOOLEAN :
        LET logs == Deserialize(snapshot)
            out == PollOutcome(ok, logs, expected)
        IN  /\ wfailed' = ~ok
            /\ wseen' = IF ok THEN <<logs>> ELSE wseen
            /\ hpc' = IF out = "sleep" THEN "sleep" ELSE "idle"
            /\ wres' = IF out = "sleep" THEN wres ELSE out
            /\ wlogs' = IF out = "ok" THEN logs ELSE wlogs
    /\ UNCHANGED <<installed, storeKey, store, script, npage, expected, snapshot,
                   welapsed, npolls, nops>>
    /\ UNCHANGED <<wraps, norig, nexec, hret, hreset>>
    /\ UNCHANGED notLog

\* the 10ms sleep is over: the loop issues the next get_console_logs
WaitSleepDone ==
    /\ hpc = "sleep"
    /\ npolls < MaxPolls
    /\ npolls' = npolls + 1
    /\ hpc' = "poll_sent"
    /\ UNCHANGED <<installed, storeKey, store, script, npage, expected, snapshot,
                   wres, wlogs, welapsed, nops>>
    /\ UNCHANGED <<wseen, wfailed>>
    /\ UNCHANGED <<wraps, norig, nexec, hret, hreset>>
    /\ UNCHANGED notLog

\* the positions of the loop inside tokio::time::timeout: its two awaits
WaitStates == {"poll_sent", "poll_reply", "sleep"}

\* the timer of tokio::time::timeout(timeout_dur, ..) reaches its deadline
WaitElapse ==
    /\ hpc \in WaitStates
    /\ ~welapsed
    /\ welapsed' = TRUE
    /\ UNCHANGED <<installed, storeKey, store, script, npage, hpc, expected, snapshot,
                   wres, wlogs, npolls, nops>>
    /\ UNCHANGED <<wseen, wfailed>>
    /\ UNCHANGED <<wraps, norig, nexec, hret, hreset>>
    /\ UNCHANGED notLog

\* the loop is suspended (in the script round trip or in the sleep) and the
\* deadline has passed: Err("Timed out waiting for expected console logs")
DeadlineCancels_BetweenPolls(pc) == pc = "sleep"

\* tokio::time::timeout wraps the whole loop: the deadline ends it at whichever
\* await it is suspended in
DeadlineCancels(pc) == pc \in WaitStates

\* .map_err(|_| anyhow::Error::msg("Timed out ...")): the error is the message
\* alone, the loop and its `logs` are dropped
TimeoutCarries(seen) == <<>>

WaitTimeout ==
    /\ DeadlineCancels(hpc)
    /\ welapsed
    /\ wres' = "timeout"
    /\ wlogs' = TimeoutCarries(wseen)
    /\ hpc' = "idle"
    /\ UNCHANGED <<installed, storeKey, store, script, npage, expected, snapshot,
                   welapsed, npolls, nops>>
    /\ UNCHANGED <<wseen, wfailed>>
    /\ UNCHANGED <<wraps, norig, nexec, hret, hreset>>
    /\ UNCHANGED notLog

\* the entries of arr that are not in seen
RECURSIVE Without(_, _)
Without(arr, seen) ==
    IF arr = <<>> THEN <<>>
    ELSE IF \E i \in 1..Len(seen) : seen[i] = Head(arr)
         THEN Without(Tail(arr), seen)
         ELSE <<Head(arr)>> \o Without(Tail(arr), seen)

ClearLogsCore_KeepsUnseen(ok) ==
    /\ hpc = "idle"
    /\ nops < MaxOps
    /\ nops' = nops + 1
    /\ IF ok
       THEN /\ storeKey' = storeKey
            /\ store' = Without(StoredLogs, snapshot)
       ELSE UNCHANGED <<storeKey, store>>
    /\ UNCHANGED <<wraps, norig>>
    /\ UNCHANGED <<installed, script, npage, hpc, expected, snapshot, wres, wlogs,
                   welapsed, npolls>>
    /\ UNCHANGED <<wseen, wfailed>>
    /\ UNCHANGED notLogCalls

\* clear_console_logs: sessionStorage.removeItem('__consoleLogs__')
ClearLogsCore(ok) ==
    /\ hpc = "idle"
    /\ nops < MaxOps
    /\ nops' = nops + 1
    /\ IF ok
       THEN /\ storeKey' = FALSE
            /\ store' = <<>>
       ELSE UNCHANGED <<storeKey, store>>
    /\ UNCHANGED <<wraps, norig>>
    /\ UNCHANGED <<installed, script, npage, hpc, expected, snapshot, wres, wlogs,
                   welapsed, npolls>>
    /\ UNCHANGED <<wseen, wfailed>>
    /\ UNCHANGED notLogCalls

ClearLogs ==
    \E ok \in BOOLEAN :
        /\ ClearLogsCore(ok)
        /\ UNCHANGED traceVars
        /\ UNCHANGED <<hgone, hunseen>>

\* the same step, noting what it removed; after a wait that returned Ok,
\* `snapshot` is the array of the poll that matched
ClearLogsNoted ==
    \E ok \in BOOLEAN :
        /\ ClearLogsCore(ok)
        /\ UNCHANGED traceVars
        /\ hgone' = IF ok THEN hgone \o StoredLogs ELSE hgone
        /\ hunseen' = IF ok /\ wres = "ok"
                      THEN hunseen \o Without(StoredLogs, snapshot)
                      ELSE hunseen

\* a cucumber step ends and the next begins: the count of harness calls
\* restarts; the steps modelled are given the same table
NextStep ==
    /\ hpc = "idle"
    /\ nops > 0
    /\ nops' = 0
    /\ UNCHANGED <<installed, wraps, norig, nexec, hret, hreset, storeKey, store, script, npage,
                   hpc, expected, snapshot, wres, wlogs, wseen, wfailed, welapsed, npolls>>
    /\ UNCHANGED notLog

\* the same step, with what happened written down
ClearLogsTraced ==
    \E ok \in BOOLEAN :
        /\ ClearLogsCore(ok)
        /\ hret' = IF ok THEN "clear_ok" ELSE "clear_err"
        /\ UNCHANGED <<nexec, hreset>>
        /\ UNCHANGED <<hgone, hunseen>>

LogNext ==
    \/ PageLog
    \/ GotoNav
    \/ GotoInject
    \/ WaitCall
    \/ BrowserGet
    \/ WaitReply
    \/ WaitSleepDone
    \/ WaitElapse
    \/ WaitTimeout
    \/ ClearLogs

\* the page and the harness again, goto_path and clear_console_logs leaving a
\* record of how they went
CaptureNext ==
    \/ PageLog
    \/ GotoNavTraced
    \/ GotoInjectTraced
    \/ WaitCall
    \/ BrowserGet
    \/ WaitReply
    \/ WaitSleepDone
    \/ WaitElapse
    \/ WaitTimeout
    \/ ClearLogsTraced

\* the steps of a scenario that follow a goto_path, each making its harness
\* calls while the page goes on logging
StepsNext ==
    \/ PageLog
    \/ WaitCall
    \/ BrowserGet
    \/ WaitReply
    \/ WaitSleepDone
    \/ WaitElapse
    \/ WaitTimeout
    \/ ClearLogsNoted
    \/ NextStep

(***************************************************************************)
(* global_server_addr: set_server_addr and get_server_addr as any task of  *)
(* the process may call them (serve sets, AppWorld::new gets).             *)
(***************************************************************************)
notAddr == <<portVars, drvVars, logVars, benchVars, runVars, wsVars, startVars>>
srvTasks == <<mpc, mres, spc, tx, rxAlive, elapsed, abortReq, listener, late>>

\* a task enters set_server_addr(addr)
AddrSetCall(c, addr) ==
    /\ apc[c] = "idle"
    /\ apc' = [apc EXCEPT ![c] = "set"]
    /\ aarg' = [aarg EXCEPT ![c] = addr]
    /\ ares' = [ares EXCEPT ![c] = "none"]
    /\ aval' = [aval EXCEPT ![c] = NoPort]
    /\ UNCHANGED <<SERVER_ADDR, srvTasks, notAddr>>

\* SERVER_ADDR.set(addr).expect("Server address already set")
AddrSetRet(c) ==
    /\ apc[c] = "set"
    /\ SERVER_ADDR' = OnceLockSet(SERVER_ADDR, aarg[c])
    /\ ares' = [ares EXCEPT ![c] = IF SetPanics(SERVER_ADDR) THEN "panic" ELSE "set"]
    /\ apc' = [apc EXCEPT ![c] = "idle"]
    /\ UNCHANGED <<aarg, aval, srvTasks, notAddr>>

\* a task enters get_server_addr(), as AppWorld::new does
AddrGetCall(c) ==
    /\ apc[c] = "idle"
    /\ apc' = [apc EXCEPT ![c] = "get"]
    /\ aarg' = [aarg EXCEPT ![c] = NoPort]
    /\ ares' = [ares EXCEPT ![c] = "none"]
    /\ aval' = [aval EXCEPT ![c] = NoPort]
    /\ UNCHANGED <<SERVER_ADDR, srvTasks, notAddr>>

\* *SERVER_ADDR.get().expect("Server address not initialized")
AddrGetRet(c) ==
    /\ apc[c] = "get"
    /\ IF GetPanics(SERVER_ADDR)
       THEN /\ ares' = [ares EXCEPT ![c] = "panic"]
            /\ aval' = aval
       ELSE /\ ares' = [ares EXCEPT ![c] = "got"]
            /\ aval' = [aval EXCEPT ![c] = SERVER_ADDR]
    /\ apc' = [apc EXCEPT ![c] = "idle"]
    /\ UNCHANGED <<SERVER_ADDR, aarg, srvTasks, notAddr>>

AddrNext ==
    \E c \in Callers :
        \/ \E addr \in Ports : AddrSetCall(c, addr)
        \/ AddrSetRet(c)
        \/ AddrGetCall(c)
        \/ AddrGetRet(c)

(***************************************************************************)
(* benchmark: BenchmarkResults (add_timing, print_summary, get_timings)    *)
(* and Statistics::from_timings.  Samples are u128 counts of milliseconds, *)
(* at most u64::MAX * 1000 + 999 each (Duration::as_millis), so that no    *)
(* sum of stored samples reaches 2^128.  The f64 stddev is kept as its     *)
(* square, the variance, an exact fraction.                                *)
(***************************************************************************)
\* most samples of one sequence
MaxSamples == 4
\* add_timing calls in one behaviour
MaxAdds == 3
\* longest Duration passed to add_timing, in half milliseconds
MaxHalfMs == 3

\* the sample values tried
SampleValues == {0, 1, 2, 10, 20, 30, 40}

BenchNames == {"connect", "num"}

\* keys.sort(): the names in alphabetical order
NameOrder == <<"connect", "num">>

notBench == <<portVars, drvVars, srvVars, logVars, addrVars, runVars, wsVars, startVars>>

\* Duration::as_millis: whole milliseconds, the rest is dropped
AsMillis(d) == d \div 2

RECURSIVE SumSeq(_)
\* timings.iter().sum()
SumSeq(t) == IF t = <<>> THEN 0 ELSE Head(t) + SumSeq(Tail(t))

RECURSIVE MinSeq(_)
\* timings.iter().min().unwrap()
MinSeq(t) ==
    IF Len(t) = 1 THEN t[1]
    ELSE LET m == MinSeq(Tail(t)) IN IF Head(t) <= m THEN Head(t) ELSE m

RECURSIVE MaxSeq(_)
\* timings.iter().max().unwrap()
MaxSeq(t) ==
    IF Len(t) = 1 THEN t[1]
    ELSE LET m == MaxSeq(Tail(t)) IN IF Head(t) >= m THEN Head(t) ELSE m

RECURSIVE InsertSorted(_, _)
InsertSorted(x, s) ==
    IF s = <<>> THEN <<x>>
    ELSE IF x <= Head(s) THEN <<x>> \o s
    ELSE <<Head(s)>> \o InsertSorted(x, Tail(s))

RECURSIVE SortUnstable(_)
\* sorted.sort_unstable(): ascending (equal integers cannot be told apart)
SortUnstable(t) ==
    IF t = <<>> THEN <<>> ELSE InsertSorted(Head(t), SortUnstable(Tail(t)))

Median_UpperMiddle(sorted) == sorted[Len(sorted) \div 2 + 1]

\* the median of the sorted copy; sorted[mid - 1] and sorted[mid] of the
\* 0-based Vec are sorted[mid] and sorted[mid + 1] here
Median(sorted) ==
    IF Len(sorted) % 2 = 0
    THEN LET mid == Len(sorted) \div 2 IN (sorted[mid] + sorted[mid + 1]) \div 2
    ELSE sorted[Len(sorted) \div 2 + 1]

RECURSIVE SumSqDiff(_, _)
\* .map(|&x| { let diff = x as f64 - avg as f64; diff * diff }).sum::<f64>()
SumSqDiff(t, avg) ==
    IF t = <<>> THEN 0
    ELSE (Head(t) - avg) * (Head(t) - avg) + SumSqDiff(Tail(t), avg)

EmptyStatistics_Panics == [panic |-> "attempt to divide by zero"]

\* if timings.is_empty() { return Self { avg: 0, min: 0, max: 0, median: 0, stddev: 0.0 } }
EmptyStatistics ==
    [avg |-> 0, min |-> 0, max |-> 0, median |-> 0, variance |-> [num |-> 0, den |-> 1]]

\* Statistics::from_timings; stddev is the square root of `variance`
FromTimings(t) ==
    IF t = <<>> THEN EmptyStatistics
    ELSE LET avg == SumSeq(t) \div Len(t)
         IN  [avg |-> avg,
              min |-> MinSeq(t),
              max |-> MaxSeq(t),
              median |-> Median(SortUnstable(t)),
              variance |-> [num |-> SumSqDiff(t, avg), den |-> Len(t)]]

\* a direct call of the public Statistics::from_timings, on the slice `sin`
StatsCall ==
    /\ sout = <<>>
    /\ sout' = <<FromTimings(sin)>>
    /\ UNCHANGED <<sin, timings, ladd, printed, bout, bname, nadds>>
    /\ UNCHANGED notBench

Added_PushIfNonZero(tm, name, d) ==
    [n \in (DOMAIN tm) \cup {name} |->
        LET old == IF n \in DOMAIN tm THEN tm[n] ELSE <<>>
        IN  IF n = name /\ AsMillis(d) > 0 THEN Append(old, AsMillis(d)) ELSE old]

\* self.timings.entry(name.into()).or_default().push(duration.as_millis())
Added(tm, name, d) ==
    [n \in (DOMAIN tm) \cup {name} |->
        IF n = name
        THEN Append(IF n \in DOMAIN tm THEN tm[n] ELSE <<>>, AsMillis(d))
        ELSE tm[n]]

\* add_timing(name, duration)
AddTiming(name, d) ==
    /\ nadds < MaxAdds
    /\ nadds' = nadds + 1
    /\ ladd' = <<name, d>>
    /\ timings' = Added(timings, name, d)
    /\ UNCHANGED <<printed, bout, bname, sin, sout>>
    /\ UNCHANGED notBench

SliceAfterStats_SortedInPlace(t) == SortUnstable(t)

\* let mut sorted = timings.to_vec(); sorted.sort_unstable(): the slice that
\* from_timings was given is as it was
SliceAfterStats(t) == t

\* print_stats: "No data" for an empty slice, else the statistics
NoData == [text |-> "No data"]

PrintStats(t) == IF t = <<>> THEN NoData ELSE FromTimings(t)

\* print_summary: the keys sorted, print_stats for each
PrintSummary ==
    /\ printed' =
           LET keys == SelectSeq(NameOrder, LAMBDA n : n \in DOMAIN timings)
           IN  [i \in 1..Len(keys) |-> <<keys[i], PrintStats(timings[keys[i]])>>]
    /\ timings' = [n \in DOMAIN timings |-> SliceAfterStats(timings[n])]
    /\ UNCHANGED <<ladd, bout, bname, nadds, sin, sout>>
    /\ UNCHANGED notBench

\* get_timings(name): self.timings.get(name).map(|v| v.as_slice())
GetTimings(name) ==
    /\ bout' = IF name \in DOMAIN timings THEN <<timings[name]>> ELSE <<>>
    /\ bname' = name
    /\ UNCHANGED <<timings, ladd, printed, nadds, sin, sout>>
    /\ UNCHANGED notBench

StatsNext == StatsCall

BenchNext ==
    \/ \E name \in BenchNames, d \in 0..MaxHalfMs : AddTiming(name, d)
    \/ PrintSummary
    \/ \E name \in BenchNames : GetTimings(name)

(***************************************************************************)
(* cucumber_test(path): read the directory and hand every entry whose      *)
(* extension is `feature` to Cucumber with fail_on_skipped() and           *)
(* run_and_exit: when the run has failed, run_and_exit does not return     *)
(* (it panics, or in older cucumber releases calls exit(1)), and the       *)
(* process, whose main awaits cucumber_test, ends with a nonzero status.   *)
(***************************************************************************)
\* most entries of the directory
MaxEntries == 3

\* How the run of one feature file ends: every scenario passed; a step
\* failed or the file did not parse; a step was skipped (no step definition
\* matches it); a step was skipped in a scenario tagged @allow.skipped.
RunEnds == {"passed", "failed", "skipped", "skipped_allowed"}

\* path.extension() of the entries tried: Some("feature"), Some("FEATURE"),
\* Some("txt"), None
DirEntries ==
    {[ext |-> "feature", end |-> e] : e \in RunEnds}
        \cup {[ext |-> x, end |-> "none"] : x \in {"FEATURE", "txt", "none"}}

notRun == <<portVars, drvVars, srvVars, logVars, addrVars, benchVars, wsVars, startVars>>

\* path.extension() == Some(OsStr::new("feature"))
IsFeature(entry) == entry.ext = "feature"

ExecutionHasFailed_SkipsPass(end) == end = "failed"

\* AppWorld::cucumber().fail_on_skipped(): a skipped step counts as failed
\* unless its scenario is tagged @allow.skipped
ExecutionHasFailed(end) == end \in {"failed", "skipped"}

\* let mut dir = fs::read_dir(path).await?
RunCall ==
    /\ rpc = "idle"
    /\ \E ok \in BOOLEAN :
        /\ rpc' = IF ok THEN "next" ELSE "done"
        /\ rres' = IF ok THEN "none" ELSE "err"
    /\ UNCHANGED <<entries, rpos, rran>>
    /\ UNCHANGED notRun

\* while let Some(entry) = dir.next_entry().await? { let path = entry.path();
\* if path.extension() == Some(OsStr::new("feature")) {..} }, and Ok(()) after it
RunNextEntry ==
    /\ rpc = "next"
    /\ \E ok \in BOOLEAN :
        IF ~ok
        THEN /\ rpc' = "done"
             /\ rres' = "err"
             /\ UNCHANGED rpos
        ELSE IF rpos = Len(entries)
        THEN /\ rpc' = "done"
             /\ rres' = "ok"
             /\ UNCHANGED rpos
        ELSE /\ rpos' = rpos + 1
             /\ rpc' = IF IsFeature(entries[rpos + 1]) THEN "run" ELSE "next"
             /\ UNCHANGED rres
    /\ UNCHANGED <<entries, rran>>
    /\ UNCHANGED notRun

\* AppWorld::cucumber().fail_on_skipped().run_and_exit(path).await
RunFeature ==
    /\ rpc = "run"
    /\ rran' = Append(rran, rpos)
    /\ IF ExecutionHasFailed(entries[rpos].end)
       THEN /\ rpc' = "gone"
            /\ rres' = "exit"
       ELSE /\ rpc' = "next"
            /\ UNCHANGED rres
    /\ UNCHANGED <<entries, rpos>>
    /\ UNCHANGED notRun

RunNext ==
    \/ RunCall
    \/ RunNextEntry
    \/ RunFeature

(***************************************************************************)
(* The websocket pair: GenericWebSocketManager in the browser and          *)
(* GenericWebsocketBackend on the server, one backend and one listening    *)
(* task per connect().  The manager's methods are synchronous and run on   *)
(* the browser's single thread; the listening task and the backend move    *)
(* at their await points.                                                  *)
(***************************************************************************)
MaxConns == 1
MaxWsOps == 3
MaxQueue == 1
MaxReqs == 3

Conns == 1..MaxConns

\* tx: StoredValue::new(None)
NoConn == 0

\* enum Request { Handshake { uuid }, Disconnect { uuid } }
Requests == {"Handshake", "Disconnect"}

\* what input.next() can give: Some(Ok(request)) or Some(Err(e))
StreamItems == Requests \cup {"Err"}

notWs == <<portVars, drvVars, srvVars, logVars, addrVars, benchVars, runVars, startVars>>

\* the Receiver of a connection's channel is with the websocket: it lives as
\* long as the websocket is open
ReceiverAlive(c) == ws.wsUp[c]

\* input.next() is None: every sender of the request channel is dropped (the
\* manager holds the sender of its latest connect() only) or the websocket is shut
InClosed(c) == ws.wsTx # c \/ ~ws.wsUp[c]

\* stream.next() is at its end: the backend has dropped its sender, or the
\* websocket is shut
OutClosed(c) == ws.bpc[c] = "done" \/ ~ws.wsUp[c]

\* new_with_client: tx None, is_connected false
WsNew ==
    [wsTx |-> NoConn,
     is_connected |-> FALSE,
     nconn |-> 0,
     wsUp |-> [c \in Conns |-> FALSE],
     wsIn |-> [c \in Conns |-> <<>>],
     wsOut |-> [c \in Conns |-> <<>>],
     bpc |-> [c \in Conns |-> "none"],
     lpc |-> [c \in Conns |-> "none"],
     bhandled |-> [c \in Conns |-> <<>>],
     bsent |-> [c \in Conns |-> 0],
     wsRet |-> "none",
     wsLast |-> "none",
     wsDisc |-> FALSE,
     nwsops |-> 0]

WsIdle == ws = WsNew

\* no manager has been made
WsAbsent == ws = <<>>

\* connect(): let (tx, rx) = mpsc::unbounded(); tx.unbounded_send(Ok(handshake));
\* self.tx.set_value(Some(tx)); spawn_local(..).  The channel's receiver is
\* in hand, so the send cannot fail; is_connected is not written.
WsConnect ==
    /\ ws.nwsops < MaxWsOps
    /\ ws.nconn < MaxConns
    /\ LET c == ws.nconn + 1
       IN  ws' = [ws EXCEPT
                     !.nconn = c,
                     !.wsTx = c,
                     !.wsUp[c] = TRUE,
                     !.wsIn[c] = <<"Handshake">>,
                     !.lpc[c] = "connecting",
                     !.wsDisc = FALSE,
                     !.wsLast = "connect",
                     !.nwsops = @ + 1]
    /\ UNCHANGED notWs

\* what send(request) returns
SendResult(t) ==
    IF t = NoConn THEN "not_available"
    ELSE IF ReceiverAlive(t) THEN "ok"
    ELSE "send_failed"

\* send(request): match self.tx.get_value() { Some(tx) => tx.unbounded_send(Ok(request)),
\* None => { self.is_connected.set(false); Err("Connection not available") } }
\* What the request channels hold after it.
SendCore(r) ==
    IF SendResult(ws.wsTx) = "ok"
    THEN [ws.wsIn EXCEPT ![ws.wsTx] = Append(@, r)]
    ELSE ws.wsIn

WsSend ==
    /\ ws.nwsops < MaxWsOps
    /\ \E r \in Requests :
        ws' = [ws EXCEPT
                  !.wsIn = SendCore(r),
                  !.wsRet = SendResult(ws.wsTx),
                  !.is_connected = IF ws.wsTx = NoConn THEN FALSE ELSE @,
                  !.wsLast = "send",
                  !.nwsops = @ + 1]
    /\ UNCHANGED notWs

\* disconnect(): self.send(disconnect) with its error logged, then
\* self.is_connected.set(false); self.tx is not written
WsDisconnect ==
    /\ ws.nwsops < MaxWsOps
    /\ ws' = [ws EXCEPT
                 !.wsIn = SendCore("Disconnect"),
                 !.is_connected = FALSE,
                 !.wsDisc = TRUE,
                 !.wsLast = "disconnect",
                 !.nwsops = @ + 1]
    /\ UNCHANGED notWs

\* the listening task: match T::get_stream(rx).await { Ok(stream) => stream,
\* Err(e) => { is_connected.set(false); return } }.  On Ok the server function
\* has made its channel and spawned the backend's serve().
ListenGetStream(c) ==
    /\ ws.lpc[c] = "connecting"
    /\ \E ok \in BOOLEAN :
        IF ok /\ ws.wsUp[c]
        THEN ws' = [ws EXCEPT !.lpc[c] = "listening", !.bpc[c] = "serving"]
        ELSE ws' = [ws EXCEPT
                       !.lpc[c] = "ended",
                       !.is_connected = FALSE,
                       !.wsUp[c] = FALSE]
    /\ UNCHANGED notWs

\* RkyvWebSocketClient::handle_response: HandshakeResponse => is_connected.set(true)
HandleResponse(response, flag) ==
    IF response = "HandshakeResponse" THEN TRUE ELSE flag

\* while let Some(response) = stream.next().await: Ok(response) goes to
\* handle_response, Err is logged and the loop continues
ListenNext(c) ==
    /\ ws.lpc[c] = "listening"
    /\ ws.wsOut[c] # <<>>
    /\ ws' = [ws EXCEPT
                 !.wsOut[c] = Tail(@),
                 !.is_connected = IF Head(ws.wsOut[c]) = "OtherErr"
                                  THEN @
                                  ELSE HandleResponse(Head(ws.wsOut[c]), @)]
    /\ UNCHANGED notWs

\* the drained stream gives the close as the error "WebSocket Closed: code:
\* 1005" (is_connected.set(false); return) or as None (the loop and the task
\* end, is_connected is not written)
ConnectedAfterTask(how, flag) == IF how = "closed1005" THEN FALSE ELSE flag

ListenEnd(c) ==
    /\ ws.lpc[c] = "listening"
    /\ ws.wsOut[c] = <<>>
    /\ OutClosed(c)
    /\ \E how \in {"end", "closed1005"} :
        ws' = [ws EXCEPT
                  !.is_connected = ConnectedAfterTask(how, @),
                  !.lpc[c] = "ended"]
    /\ UNCHANGED notWs

\* RkyvWebSocketMessage::handle_request: Handshake => { tx.unbounded_send(Ok(
\* HandshakeResponse)) with its error logged; true }, Disconnect => false
HandlerContinues_Always(request) == TRUE

HandlerContinues(request) == request = "Handshake"

Responses(request) == IF request = "Handshake" THEN <<"HandshakeResponse">> ELSE <<>>

\* serve(): loop { if !self.handle_input_result(self.input.next().await) { break } }
\* Some(Ok(request)) => handler.handle_request(request, &self.tx),
\* Some(Err(e)) => false, None => false
BackendStep(c) ==
    /\ ws.bpc[c] = "serving"
    /\ IF ws.wsIn[c] # <<>>
       THEN LET item == Head(ws.wsIn[c])
            IN  IF item = "Err"
                THEN ws' = [ws EXCEPT !.wsIn[c] = Tail(@), !.bpc[c] = "done"]
                ELSE ws' = [ws EXCEPT
                               !.wsIn[c] = Tail(@),
                               !.bhandled[c] = Append(@, item),
                               !.bpc[c] = IF HandlerContinues(item) THEN "serving" ELSE "done",
                               !.wsOut[c] = IF ReceiverAlive(c)
                                            THEN @ \o Responses(item)
                                            ELSE @,
                               !.bsent[c] = IF ReceiverAlive(c)
                                            THEN @ + Len(Responses(item))
                                            ELSE @]
       ELSE /\ InClosed(c)
            /\ ws' = [ws EXCEPT !.bpc[c] = "done"]
    /\ UNCHANGED notWs

\* the request stream yields Some(Err(e)): a frame that does not deserialize
WsInError(c) ==
    /\ ws.bpc[c] = "serving"
    /\ ws.wsUp[c]
    /\ Len(ws.wsIn[c]) < MaxQueue
    /\ ws' = [ws EXCEPT !.wsIn[c] = Append(@, "Err")]
    /\ UNCHANGED notWs

\* the response stream yields an Err other than the close
WsOutError(c) ==
    /\ ws.lpc[c] = "listening"
    /\ ws.wsUp[c]
    /\ Len(ws.wsOut[c]) < MaxQueue
    /\ ws' = [ws EXCEPT !.wsOut[c] = Append(@, "OtherErr")]
    /\ UNCHANGED notWs

\* the websocket shuts: the browser tab or the network goes, or the server
\* ends the connection after the backend has returned
LinkDown(c) ==
    /\ ws.wsUp[c]
    /\ ws.lpc[c] = "listening"
    /\ ws' = [ws EXCEPT !.wsUp[c] = FALSE]
    /\ UNCHANGED notWs

WsNext ==
    \/ WsConnect
    \/ WsSend
    \/ WsDisconnect
    \/ \E c \in Conns : ListenGetStream(c)
    \/ \E c \in Conns : ListenNext(c)
    \/ \E c \in Conns : ListenEnd(c)
    \/ \E c \in Conns : BackendStep(c)
    \/ \E c \in Conns : WsInError(c)
    \/ \E c \in Conns : WsOutError(c)
    \/ \E c \in Conns : LinkDown(c)

(***************************************************************************)
(* Benchmarks::start: navigate home once, then for i in 1..=iteration      *)
(* measure connect and disconnect (websocket template) or the num button   *)
(* (default template); each measurement finds its button, clicks it,       *)
(* waits for the expected console logs, takes the elapsed time and clears  *)
(* the logs; `?` returns the first error.                                  *)
(***************************************************************************)
\* most iterations asked for
MaxIter == 2

notStart == <<portVars, drvVars, srvVars, logVars, addrVars, runVars, wsVars>>

\* of a BenchmarkResults, start writes the map only
benchRest == <<ladd, printed, bout, bname, nadds, sin, sout>>

\* a Benchmarks of the given template and iteration count, start not yet called
StartNew(mode, iter) ==
    [kmode |-> mode, kiter |-> iter, ki |-> 0, kpc |-> "idle", kname |-> "", kel |-> 0,
     kres |-> "none", kout |-> <<>>, kfail |-> "none", kseq |-> <<>>, kwaits |-> 0,
     kclears |-> 0]

\* no Benchmarks has been made
StartAbsent == bstart = <<>>

\* the names measured in one iteration, in order
IterationNames(mode) == IF mode = "ws" THEN <<"connect", "disconnect">> ELSE <<"num">>

Question_Ignored(ok, pc) == pc

\* expr?: go on when Ok, return the error when Err
Question(ok, pc) == IF ok THEN pc ELSE "done"

\* the part of every step that `?` decides
StartStep(ok, pc) ==
    [bstart EXCEPT
        !.kpc = Question(ok, pc),
        !.kfail = IF ok THEN @ ELSE bstart.kpc,
        !.kres = IF Question(ok, pc) = "done" THEN (IF ok THEN "ok" ELSE "err") ELSE @]

\* let mut results = BenchmarkResults::new(self.iteration)
StartCall ==
    /\ bstart.kpc = "idle"
    /\ bstart' = [bstart EXCEPT !.kpc = "nav"]
    /\ UNCHANGED <<timings, benchRest>>
    /\ UNCHANGED notStart

\* self.navigate_home().await?; for i in 1..=self.iteration {..}; Ok(results)
StartNav ==
    /\ bstart.kpc = "nav"
    /\ \E ok \in BOOLEAN :
        bstart' = [StartStep(ok, IF bstart.kiter = 0 THEN "done" ELSE "find") EXCEPT
                      !.ki = IF ok /\ bstart.kiter > 0 THEN 1 ELSE @,
                      !.kname = IF ok /\ bstart.kiter > 0
                                THEN IterationNames(bstart.kmode)[1]
                                ELSE @,
                      !.kout = IF ok /\ bstart.kiter = 0 THEN <<timings>> ELSE @]
    /\ UNCHANGED <<timings, benchRest>>
    /\ UNCHANGED notStart

\* let button = self.find_button_with_text(..).await?
StartFind ==
    /\ bstart.kpc = "find"
    /\ \E ok \in BOOLEAN : bstart' = StartStep(ok, "click")
    /\ UNCHANGED <<timings, benchRest>>
    /\ UNCHANGED notStart

\* let start = Instant::now(); button.click().await?
StartClick ==
    /\ bstart.kpc = "click"
    /\ \E ok \in BOOLEAN : bstart' = StartStep(ok, "wait")
    /\ UNCHANGED <<timings, benchRest>>
    /\ UNCHANGED notStart

\* self.wait_for_logs(&expected, ..).await?; let elapsed = start.elapsed()
StartWait ==
    /\ bstart.kpc = "wait"
    /\ \E ok \in BOOLEAN, d \in 0..MaxHalfMs :
        bstart' = [StartStep(ok, "clear") EXCEPT
                      !.kel = IF ok THEN d ELSE @,
                      !.kwaits = IF ok THEN @ + 1 ELSE @]
    /\ UNCHANGED <<timings, benchRest>>
    /\ UNCHANGED notStart

\* where the loop goes after a measurement: the iteration's next name, the
\* next iteration, or Ok(results)
AfterMeasurement ==
    LET names == IterationNames(bstart.kmode)
        at == CHOOSE j \in 1..Len(names) : names[j] = bstart.kname
    IN  IF at < Len(names) THEN [pc |-> "find", i |-> bstart.ki, name |-> names[at + 1]]
        ELSE IF bstart.ki < bstart.kiter
        THEN [pc |-> "find", i |-> bstart.ki + 1, name |-> names[1]]
        ELSE [pc |-> "done", i |-> bstart.ki, name |-> bstart.kname]

\* self.clear_console_logs().await?; Ok(elapsed), and in start
\* results.add_timing(name, elapsed)
StartClear ==
    /\ bstart.kpc = "clear"
    /\ \E ok \in BOOLEAN :
        IF ok
        THEN /\ timings' = Added(timings, bstart.kname, bstart.kel)
             /\ bstart' = [StartStep(ok, AfterMeasurement.pc) EXCEPT
                               !.kseq = Append(@, [name |-> bstart.kname, i |-> bstart.ki,
                                                   el |-> bstart.kel]),
                               !.kclears = @ + 1,
                               !.ki = AfterMeasurement.i,
                               !.kname = AfterMeasurement.name,
                               !.kout = IF AfterMeasurement.pc = "done"
                                        THEN <<Added(timings, bstart.kname, bstart.kel)>>
                                        ELSE @]
        ELSE /\ timings' = timings
             /\ bstart' = StartStep(ok, AfterMeasurement.pc)
    /\ UNCHANGED benchRest
    /\ UNCHANGED notStart

StartNext ==
    \/ StartCall
    \/ StartNav
    \/ StartFind
    \/ StartClick
    \/ StartWait
    \/ StartClear

(***************************************************************************)
(* Specifications                                                          *)
(***************************************************************************)
InitPort == PortInit /\ DrvIdle /\ SrvIdle /\ LogIdle /\ AddrIdle /\ BenchIdle /\ RunIdle /\ WsAbsent /\ StartAbsent

SpecPort == InitPort /\ [][PortNext]_vars

\* get_available_port called by one task amid any number of other callers,
\* which show in what they do to what is shared: a fetch_add on PORT_COUNTER
\* (each of them overshoots the upper bound at most once before it stores) and
\* a store of the lower bound; processes take and release ports meanwhile.
PeerFetch ==
    /\ PORT_COUNTER < PORT_LIMIT + NCallers
    /\ PORT_COUNTER' = FetchAdd(PORT_COUNTER)
    /\ UNCHANGED <<busy, ppc, pport, pattempt, pret, pconc, ncalls, notPort>>

PeerStore ==
    /\ PORT_COUNTER' = PORT_BASE
    /\ UNCHANGED <<busy, ppc, pport, pattempt, pret, pconc, ncalls, notPort>>

InitAmid ==
    /\ PORT_COUNTER \in PORT_BASE..PORT_LIMIT
    /\ busy \in SUBSET Ports
    /\ PortIdle
    /\ DrvIdle /\ SrvIdle /\ LogIdle /\ AddrIdle /\ BenchIdle /\ RunIdle /\ WsAbsent /\ StartAbsent

AmidNext ==
    \/ PortCall(1)
    \/ PortFetch(1)
    \/ PortReset(1)
    \/ PortBind(1)
    \/ PortExhausted(1)
    \/ PeerFetch
    \/ PeerStore
    \/ \E port \in Ports :
        \/ EnvTake(port)
        \/ EnvRelease(port)

\* The task inside get_available_port is scheduled, and the bind it awaits, a
\* local system call, completes; nothing is assumed of the other callers.
AmidFairness ==
    /\ WF_vars(PortFetch(1))
    /\ WF_vars(PortReset(1))
    /\ WF_vars(PortBind(1))
    /\ WF_vars(PortExhausted(1))

SpecAmid == InitAmid /\ [][AmidNext]_vars

SpecAmidFair == SpecAmid /\ AmidFairness

\* One task calls get_available_port, again and again, nobody else does and
\* the set of taken ports does not change; the cursor starts anywhere earlier
\* calls can have left it.
InitSolo ==
    /\ PORT_COUNTER \in PORT_BASE..PORT_LIMIT
    /\ busy \in SUBSET Ports
    /\ PortIdle
    /\ DrvIdle /\ SrvIdle /\ LogIdle /\ AddrIdle /\ BenchIdle /\ RunIdle /\ WsAbsent /\ StartAbsent

SoloNext ==
    \/ PortCall(1)
    \/ PortFetch(1)
    \/ PortReset(1)
    \/ PortBind(1)
    \/ PortExhausted(1)

SpecSolo == InitSolo /\ [][SoloNext]_vars

\* the address is set when serve_and_wait ran before the sessions, unset otherwise
InitDriver ==
    /\ PortInit
    /\ DrvInit
    /\ SrvIdleTasks
    /\ SERVER_ADDR \in {NoPort, PORT_BASE}
    /\ LogIdle
    /\ AddrIdle /\ BenchIdle /\ RunIdle /\ WsAbsent /\ StartAbsent

SpecDriver == InitDriver /\ [][DrvNext]_vars

InitLog ==
    /\ PortInit /\ busy = {}
    /\ DrvIdle /\ SrvIdle
    /\ LogInit
    /\ AddrIdle /\ BenchIdle /\ RunIdle /\ WsAbsent /\ StartAbsent

SpecLog == InitLog /\ [][LogNext]_vars

SpecCapture == InitLog /\ [][CaptureNext]_vars

\* the state a goto_path that returned Ok leaves in a fresh browser: the flag
\* set, one wrapper on each method, the key holding '[]'
InitSteps ==
    /\ PortInit /\ busy = {}
    /\ DrvIdle /\ SrvIdle
    /\ AddrIdle /\ BenchIdle /\ RunIdle /\ WsAbsent /\ StartAbsent
    /\ installed = TRUE
    /\ wraps = WrapAll([m \in ConsoleMethods |-> 0])
    /\ norig = 0
    /\ nexec = 1
    /\ hret = "goto_ok"
    /\ hreset = FALSE
    /\ storeKey = TRUE
    /\ store = InitStorage(FALSE, <<>>)
    /\ script \in SeqsUpTo(PageCalls, MaxLogs)
    /\ npage = 0
    /\ hpc = "idle"
    /\ expected \in SeqsUpTo(ExpectedEntries, MaxLogs)
    /\ snapshot = <<>>
    /\ wres = "none"
    /\ wlogs = <<>>
    /\ wseen = <<>>
    /\ wfailed = FALSE
    /\ welapsed = FALSE
    /\ npolls = 0
    /\ nops = 0
    /\ hgone = <<>>
    /\ hunseen = <<>>

SpecSteps == InitSteps /\ [][StepsNext]_vars

\* The browser answers a script it received, the harness task is scheduled,
\* the 10ms sleep ends and the deadline of tokio::time::timeout arrives.
LogFairness ==
    /\ WF_vars(BrowserGet)
    /\ WF_vars(WaitReply)
    /\ WF_vars(WaitSleepDone)
    /\ WF_vars(WaitElapse)
    /\ WF_vars(WaitTimeout)

SpecLogFair == SpecLog /\ LogFairness

\* Only the timer is assumed: the deadline arrives and the task it wakes is
\* polled.  The browser may never answer a script.
SpecLogTimer == SpecLog /\ WF_vars(WaitElapse) /\ WF_vars(WaitTimeout)

InitAddr == PortInit /\ busy = {} /\ DrvIdle /\ SrvIdle /\ LogIdle /\ AddrIdle /\ BenchIdle /\ RunIdle /\ WsAbsent /\ StartAbsent

SpecAddr == InitAddr /\ [][AddrNext]_vars

InitBench ==
    /\ PortInit /\ busy = {}
    /\ DrvIdle /\ SrvIdle /\ LogIdle /\ AddrIdle /\ BenchIdle /\ RunIdle /\ WsAbsent /\ StartAbsent

\* from_timings called on any sequence of samples
InitStats ==
    /\ PortInit /\ busy = {}
    /\ DrvIdle /\ SrvIdle /\ LogIdle /\ AddrIdle /\ RunIdle /\ WsAbsent /\ StartAbsent
    /\ BenchNew
    /\ sin \in SeqsUpTo(SampleValues, MaxSamples)
    /\ sout = <<>>

SpecStats == InitStats /\ [][StatsNext]_vars

\* a BenchmarkResults in use
SpecBench == InitBench /\ [][BenchNext]_vars

\* cucumber_test called on any directory of up to MaxEntries entries
InitRun ==
    /\ PortInit /\ busy = {}
    /\ DrvIdle /\ SrvIdle /\ LogIdle /\ AddrIdle /\ BenchIdle /\ WsAbsent /\ StartAbsent
    /\ entries \in SeqsUpTo(DirEntries, MaxEntries)
    /\ rpc = "idle"
    /\ rpos = 0
    /\ rran = <<>>
    /\ rres = "none"

SpecRun == InitRun /\ [][RunNext]_vars

\* a manager in a page, its connections and their backends
InitWs ==
    /\ PortInit /\ busy = {}
    /\ DrvIdle /\ SrvIdle /\ LogIdle /\ AddrIdle /\ BenchIdle /\ RunIdle /\ WsIdle /\ StartAbsent

SpecWs == InitWs /\ [][WsNext]_vars

\* one backend serving any stream of up to MaxReqs items, its listening task
\* reading the responses
InitBackend ==
    /\ PortInit /\ busy = {}
    /\ DrvIdle /\ SrvIdle /\ LogIdle /\ AddrIdle /\ BenchIdle /\ RunIdle /\ StartAbsent
    /\ ws \in {[WsNew EXCEPT
                   !.wsTx = 1,
                   !.nconn = 1,
                   !.wsUp[1] = TRUE,
                   !.wsIn[1] = q,
                   !.bpc[1] = "serving",
                   !.lpc[1] = "listening",
                   !.wsLast = "connect",
                   !.nwsops = 1] : q \in SeqsUpTo(StreamItems, MaxReqs)}

BackendNext ==
    \/ \E c \in Conns : BackendStep(c)
    \/ \E c \in Conns : ListenNext(c)
    \/ \E c \in Conns : ListenEnd(c)
    \/ \E c \in Conns : LinkDown(c)

SpecBackend == InitBackend /\ [][BackendNext]_vars

\* the backend's task is scheduled whenever it can take a step
SpecBackendFair == SpecBackend /\ \A c \in Conns : WF_vars(BackendStep(c))

\* start called on a Benchmarks of either template, with up to MaxIter iterations
InitStart ==
    /\ PortInit /\ busy = {}
    /\ DrvIdle /\ SrvIdle /\ LogIdle /\ AddrIdle /\ BenchIdle /\ RunIdle /\ WsAbsent
    /\ bstart \in {StartNew(mode, iter) : mode \in {"ws", "num"}, iter \in 0..MaxIter}

SpecStart == InitStart /\ [][StartNext]_vars

\* serve_and_wait is called in a process whose webdrivers and earlier runs have
\* moved PORT_COUNTER anywhere in the range, the upper bound included
InitServe ==
    /\ PORT_COUNTER \in PORT_BASE..PORT_LIMIT
    /\ busy \in SUBSET Ports
    /\ PortIdle
    /\ DrvIdle /\ SrvIdle /\ LogIdle /\ AddrIdle /\ BenchIdle /\ RunIdle /\ WsAbsent /\ StartAbsent

SpecServe == InitServe /\ [][SrvNext]_vars

\* Benchmark::new: LeptosServer::serve_and_wait(5).await?; then
\* AppWorld::new().await, which calls get_server_addr() once the web driver
\* is there.  The ? lets the caller reach it only when serve_and_wait
\* returned Ok.
WorldNew(c) ==
    /\ mres[c] = "ok"
    /\ AddrGetCall(c)

ReadyNext ==
    \/ SrvNext
    \/ \E c \in Servers : WorldNew(c)
    \/ \E c \in Servers : AddrGetRet(c)

SpecReady == InitServe /\ [][ReadyNext]_vars

\* serve_and_wait called once more than the e2e binaries do, each call after
\* the one before it returned; no other process takes or frees a port
\* meanwhile, and at the start the range is either all free or all taken
Again == 1..(NServes + 1)

InitAgain ==
    /\ PORT_COUNTER \in PORT_BASE..PORT_LIMIT
    /\ busy \in {{}, Ports}
    /\ PortIdle
    /\ DrvIdle /\ SrvIdle /\ LogIdle /\ AddrIdle /\ BenchIdle /\ RunIdle /\ WsAbsent /\ StartAbsent

AgainNext ==
    \E c \in Again :
        \/ MainCallTraced(c)
        \/ MainSpawn(c)
        \/ Elapse(c)
        \/ MainWake(c)
        \/ SrvStart(c)
        \/ PortFetch(c)
        \/ PortReset(c)
        \/ PortBind(c)
        \/ PortExhausted(c)
        \/ SrvPortDone(c)
        \/ SrvSetup(c)
        \/ SrvBind(c)
        \/ SrvSend(c)
        \/ SrvServe(c)
        \/ SrvCancel(c)

SpecAgain == InitAgain /\ [][AgainNext]_vars

\* Fairness: a timer that is due fires and the task it wakes is polled
\* (Elapse, MainWake); a task that is running, not suspended in an .await, runs
\* on (the steps without I/O); an aborted task that is suspended is dropped
\* (SrvCancel).  Nothing is assumed of I/O: a probe, the set-up or the bind may
\* never complete.
ServeFairness ==
    \A c \in Servers :
        /\ WF_vars(Elapse(c))
        /\ WF_vars(MainWake(c))
        /\ WF_vars(PortFetch(c))
        /\ WF_vars(PortReset(c))
        /\ WF_vars(PortExhausted(c))
        /\ WF_vars(SrvPortDone(c))
        /\ WF_vars(SrvSend(c))
        /\ WF_vars(SrvServe(c))
        /\ WF_vars(SrvCancel(c))

SpecServeFair == InitServe /\ [][SrvNext]_vars /\ ServeFairness

(***************************************************************************)
(* C1: for any number of concurrent get_available_port calls, the ports    *)
(* they return are pairwise distinct.                                      *)
(* Stated on the latest completed calls of two callers that overlapped in  *)
(* time.  The reset race lets two overlapping calls both fetch 8000 and    *)
(* both bind it, since the probe listener is released at once.             *)
(***************************************************************************)
C1_ConcurrentPortsDistinct ==
    \A p, q \in Callers :
        (/\ p # q
         /\ q \in pconc[p]
         /\ pret[p] \in Ports
         /\ pret[q] \in Ports) => pret[p] # pret[q]

(***************************************************************************)
(* C2: whenever the owner of a spawned driver process (the Webdriver, or   *)
(* the AppWorld holding the child) is destroyed, the child process has     *)
(* been killed and waited on: no state has the owner gone and its child    *)
(* process still running.                                                  *)
(* Holds for the legacy AppWorld (impl Drop), fails for the e2e-tests      *)
(* Webdriver, whose Child is dropped without a kill.                       *)
(***************************************************************************)
C2_OwnerGoneChildGone ==
    \A s \in Callers :
        downer[s] \in {"dropped_webdriver", "dropped_world"} => dchild[s] # "running"

(***************************************************************************)
(* C3: if build_chromedriver / build_geckodriver has spawned the driver    *)
(* process and a later step of the same call fails (the client connect),   *)
(* the spawned process is no longer running when the call has returned Err.*)
(***************************************************************************)
C3_FailedBuildLeavesNoProcess ==
    \A s \in Callers :
        dresult[s] = "err_connect" => dchild[s] # "running"

(***************************************************************************)
(* C4: if the server task ends (error return or panic) without having sent *)
(* the readiness signal, the wait of serve_and_wait resolves with 'Server  *)
(* crashed before becoming ready' and not with the timeout error.          *)
(* Stated on the step that resolves the wait: if the sender has been       *)
(* dropped unsent by then, the result is the crashed error, whether or not *)
(* the deadline has passed in between.                                     *)
(***************************************************************************)
C4_AbandonedNotTimeout ==
    [][\A c \in Servers :
          (mpc[c] = "wait" /\ mpc'[c] = "done" /\ tx[c] = "dropped")
              => mres'[c] = "err_crashed"]_vars

C4_Witness ==
    \E c \in Servers :
        /\ mres[c] = "err_crashed"
        /\ spc[c] \in {"ended", "panicked"}
        /\ elapsed[c]

(***************************************************************************)
(* C5: if the server task neither signals nor terminates, the readiness    *)
(* wait resolves with the timeout error once the deadline has passed; the  *)
(* wait never stays pending for ever.                                      *)
(* Every wait ends, and a wait that ends while the sender is still held    *)
(* ends after the deadline with the timeout error.                         *)
(***************************************************************************)
C5_WaitTimesOut ==
    /\ \A c \in Servers : (mpc[c] = "wait") ~> (mpc[c] = "done")
    /\ [][\A c \in Servers :
            (mpc[c] = "wait" /\ mpc'[c] = "done" /\ tx[c] = "held")
                => (elapsed[c] /\ mres'[c] = "err_timeout")]_vars

C5_Witness ==
    \E c \in Servers :
        /\ mres[c] = "err_timeout"
        /\ tx[c] = "held"
        /\ spc[c] \in {"port", "setup", "bind"}

(***************************************************************************)
(* C6: whenever the readiness wait fails (timeout or crashed), the caller  *)
(* has called abort on the server task before it returns the error, and    *)
(* the server task is eventually cancelled or ended and stays so; a server *)
(* that binds and tries to signal just after the deadline does not keep    *)
(* serving.                                                                *)
(***************************************************************************)
TaskOver == {"cancelled", "ended", "panicked"}

C6_FailedWaitAbortsServer ==
    /\ [](\A c \in Servers : mres[c] \in {"err_crashed", "err_timeout"} => abortReq[c])
    /\ \A c \in Servers :
         (mres[c] \in {"err_crashed", "err_timeout"}) ~> (spc[c] \in TaskOver)
    /\ [][\A c \in Servers : spc[c] \in TaskOver => spc'[c] = spc[c]]_vars

C6_Witness ==
    \E c \in Servers :
        /\ mres[c] = "err_timeout"
        /\ tx[c] = "failed"
        /\ spc[c] = "cancelled"
        /\ listener[c] = NoPort

(***************************************************************************)
(* C7: each readiness gate reaches one terminal outcome, Signaled (Ok),    *)
(* Abandoned (crashed) or TimedOut (timeout), which never changes          *)
(* afterwards; the producer signals at most once; a signal sent after the  *)
(* consumer timed out is discarded and never turns the result into Ok.     *)
(***************************************************************************)
Gate(c) ==
    CASE mres[c] = "ok" -> "Signaled"
      [] mres[c] = "err_crashed" -> "Abandoned"
      [] mres[c] = "err_timeout" -> "TimedOut"
      [] OTHER -> "Pending"

C7_GateOutcomeFinal ==
    /\ [][\A c \in Servers :
            /\ Gate(c) # "Pending" => Gate(c)' = Gate(c)
            /\ tx[c] \in {"sent", "failed", "dropped"} => tx'[c] = tx[c]]_vars
    /\ [](\A c \in Servers :
            /\ mres[c] = "err_timeout" => tx[c] # "sent"
            /\ mres[c] = "err_crashed" => tx[c] = "dropped"
            /\ mres[c] = "ok" => tx[c] = "sent")

C7_Witness ==
    \E c \in Servers :
        /\ mres[c] = "err_timeout"
        /\ tx[c] = "failed"

(***************************************************************************)
(* C8: the readiness signal is sent only after the server's TCP listener   *)
(* has been bound to the configured address: whenever the signal was       *)
(* delivered, and so whenever serve_and_wait returned Ok, the bind on the  *)
(* stored server address has succeeded and the server task holds the       *)
(* listener.                                                               *)
(***************************************************************************)
C8_SignalAfterBind ==
    \A c \in Servers :
        /\ tx[c] = "sent" =>
              /\ listener[c] \in Ports
              /\ listener[c] = SERVER_ADDR
              /\ listener[c] \in busy
              /\ spc[c] \in {"serve", "serving"}
        /\ mres[c] = "ok" => tx[c] = "sent"

C8_Witness ==
    \E c \in Servers :
        /\ mres[c] = "ok"
        /\ spc[c] = "serving"
        /\ listener[c] = SERVER_ADDR


(***************************************************************************)
(* C9: wait_for_console_logs returns Ok(logs) only out of a poll whose     *)
(* observed array equals `expected` element by element (same length, same  *)
(* order, same level, same message parts once each part is trimmed as      *)
(* get_console_logs does), and the logs it returns equal `expected`.       *)
(***************************************************************************)
SameEntry(raw, exp) ==
    /\ raw.level = exp.level
    /\ Len(raw.message) = Len(exp.message)
    /\ \A j \in 1..Len(raw.message) : Trim(raw.message[j]) = exp.message[j]

C9_OkOnlyOnExactMatch ==
    [][(wres # "ok" /\ wres' = "ok") =>
          /\ hpc = "poll_reply"
          /\ wlogs' = expected
          /\ Len(snapshot) = Len(expected)
          /\ \A i \in 1..Len(snapshot) : SameEntry(snapshot[i], expected[i])]_vars

\* a wait returned Ok on two different entries, one of them captured with padding
C9_Witness ==
    /\ wres = "ok"
    /\ Len(wlogs) = 2
    /\ wlogs[1] # wlogs[2]
    /\ \E i \in 1..2 : snapshot[i].message # wlogs[i].message

(***************************************************************************)
(* C10: expected = [log "A"], the page logs A and then B.                  *)
(* As stated: the wait never returns Ok.                                   *)
(* As amended: the wait never returns Ok out of a poll that read [A, B];   *)
(* it returns Ok only out of a poll that read the buffer while it held     *)
(* exactly [A]; and a wait whose poll has read [A, B] ends in the timeout  *)
(* (or in a script error).                                                 *)
(***************************************************************************)
ExpectA == <<ConsoleLogNew("log", StrA)>>
ScriptAB ==
    <<[method |-> "log", args |-> <<StrA>>], [method |-> "log", args |-> <<StrB>>]>>

\* the page of the claim, every call it made so far captured and still stored
C10_Scenario ==
    /\ expected = ExpectA
    /\ script = ScriptAB
    /\ installed
    /\ Len(StoredLogs) = npage

C10_ExtraEntryNeverOk == C10_Scenario => wres # "ok"

C10_OkOnlyOnExactSnapshot ==
    /\ [][(expected = ExpectA /\ script = ScriptAB /\ wres # "ok" /\ wres' = "ok") =>
             /\ hpc = "poll_reply"
             /\ Len(snapshot) = 1
             /\ snapshot[1].message = <<StrA>>
             /\ snapshot[1].level = "log"]_vars
    /\ (expected = ExpectA /\ script = ScriptAB /\ hpc = "poll_reply" /\ Len(snapshot) = 2)
          ~> (wres \in {"timeout", "err"})

\* the wait read both entries and timed out
C10_Witness ==
    /\ C10_Scenario
    /\ wres = "timeout"
    /\ Deserialize(snapshot) = ExpectA \o <<ConsoleLogNew("log", StrB)>>

(***************************************************************************)
(* C11: wait_for_console_logs is bounded by its deadline.  Every wait      *)
(* ends, also when the browser never answers; once it has returned no poll *)
(* is outstanding; it returns the timeout error only after the deadline    *)
(* has passed and only if the last poll that returned did not match; a     *)
(* poll that returns logs equal to `expected` ends the wait with Ok and is *)
(* never followed by another sleep; Ok is returned for no other poll.      *)
(***************************************************************************)
C11_WaitBoundedByDeadline ==
    /\ (hpc \in WaitStates) ~> (hpc \notin WaitStates)
    /\ [](wres # "none" => hpc \notin WaitStates)
    /\ [](wres = "ok" => wseen = <<expected>>)
    /\ [][(wres # "timeout" /\ wres' = "timeout") =>
             /\ welapsed
             /\ wseen = <<>> \/ wseen[1] # expected]_vars
    /\ [][(hpc = "poll_reply" /\ hpc' = "sleep") =>
             ~LogsMatch(Deserialize(snapshot), expected)]_vars

\* a wait polled as often as it could, saw logs that did not match and timed out
C11_Witness ==
    /\ wres = "timeout"
    /\ npolls = MaxPolls
    /\ wseen # <<>>
    /\ wseen[1] # expected
    /\ expected # <<>>

(***************************************************************************)
(* C12: when the wait times out, the error it returns carries the log      *)
(* sequence the last poll observed.                                        *)
(***************************************************************************)
C12_TimeoutCarriesLastSeen ==
    (wres = "timeout" /\ wseen # <<>>) => wlogs = wseen[1]

(***************************************************************************)
(* C13: a get_console_logs that fails inside wait_for_console_logs ends    *)
(* the wait with that error in the same step: the loop neither sleeps nor  *)
(* polls again after it, and the call whose poll failed never returns Ok.  *)
(***************************************************************************)
C13_PollErrorReturnsAtOnce ==
    wfailed => (wres = "err" /\ hpc \notin WaitStates)

\* the second poll of a wait failed before the deadline
C13_Witness ==
    /\ wfailed
    /\ wres = "err"
    /\ npolls = 2
    /\ ~welapsed
    /\ wseen # <<>>

(***************************************************************************)
(* C14: the server address is write-once.  Once set it never changes; a    *)
(* set_server_addr on an empty cell stores its argument, a later one       *)
(* panics and leaves the stored value as it was; every get_server_addr     *)
(* after the first set returns the stored address.                         *)
(***************************************************************************)
C14_AddrWriteOnce ==
    /\ [][SERVER_ADDR # NoPort => SERVER_ADDR' = SERVER_ADDR]_vars
    /\ [][\A c \in Callers :
            (apc[c] = "set" /\ apc'[c] = "idle") =>
                IF SERVER_ADDR = NoPort
                THEN ares'[c] = "set" /\ SERVER_ADDR' = aarg[c]
                ELSE ares'[c] = "panic" /\ SERVER_ADDR' = SERVER_ADDR]_vars
    /\ [][\A c \in Callers :
            (apc[c] = "get" /\ apc'[c] = "idle" /\ SERVER_ADDR # NoPort) =>
                (ares'[c] = "got" /\ aval'[c] = SERVER_ADDR)]_vars

\* a second set with another address panicked and a get still returns the first
C14_Witness ==
    \E c, d \in Callers :
        /\ ares[c] = "panic"
        /\ aarg[c] \in Ports
        /\ aarg[c] # SERVER_ADDR
        /\ ares[d] = "got"
        /\ aval[d] = SERVER_ADDR

(***************************************************************************)
(* C15: a get_server_addr that runs while no set_server_addr has completed *)
(* panics and returns nothing; a get that returns, returns the address     *)
(* that was set, never a default.                                          *)
(***************************************************************************)
C15_GetBeforeSetPanics ==
    /\ [][\A c \in Callers :
            (apc[c] = "get" /\ apc'[c] = "idle" /\ SERVER_ADDR = NoPort) =>
                (ares'[c] = "panic" /\ aval'[c] = NoPort)]_vars
    /\ [](\A c \in Callers :
            ares[c] = "got" => (aval[c] \in Ports /\ aval[c] = SERVER_ADDR))

\* a get panicked while another task was inside set_server_addr
C15_Witness ==
    \E c, d \in Callers :
        /\ SERVER_ADDR = NoPort
        /\ ares[c] = "panic"
        /\ aarg[c] = NoPort
        /\ apc[d] = "set"

(***************************************************************************)
(* C16: the server address and the server's bind.                          *)
(* As stated: whenever the address is set, the server's listener is bound  *)
(* on it.                                                                  *)
(* As amended: the address is written once get_available_port has bound    *)
(* (probed) that port in the same call and before the server's own bind,   *)
(* so it can be set while that bind is still to come or has failed; a      *)
(* listener the server holds is always on the stored address.              *)
(***************************************************************************)
C16_AddrSetOnlyAfterBind ==
    SERVER_ADDR # NoPort => \E c \in Servers : listener[c] = SERVER_ADDR

C16_AddrSetAfterProbeBeforeBind ==
    /\ [][(SERVER_ADDR = NoPort /\ SERVER_ADDR' # NoPort) =>
             \E c \in Servers :
                /\ spc[c] = "port"
                /\ pret[c] \in Ports
                /\ SERVER_ADDR' = pret[c]
                /\ listener[c] = NoPort
                /\ spc'[c] = "setup"]_vars
    /\ [](\A c \in Servers : listener[c] # NoPort => listener[c] = SERVER_ADDR)

\* the address is set and the server's bind on it has failed
C16_Witness ==
    \E c \in Servers :
        /\ SERVER_ADDR \in Ports
        /\ spc[c] = "ended"
        /\ pret[c] = SERVER_ADDR
        /\ listener[c] = NoPort
        /\ SERVER_ADDR \in busy

(***************************************************************************)
(* C17: two attempts of concurrent get_available_port calls that are in    *)
(* flight at the same time (each has fetched its candidate and has not     *)
(* finished with it) never hold the same candidate, resets included.       *)
(***************************************************************************)
C17_ConcurrentFetchesDistinct ==
    \A p, q \in Callers :
        (p # q /\ ppc[p] \in {"bind", "reset"} /\ ppc[q] \in {"bind", "reset"})
            => pport[p] # pport[q]

(***************************************************************************)
(* C18: a fetch that returns a value at or beyond the upper bound is never *)
(* probed: its caller stores the lower bound into the cursor and fetches   *)
(* again; the cursor changes by fetches and resets only, so the first      *)
(* fetch after a reset, by whichever caller, returns the lower bound and   *)
(* that candidate is probed.                                               *)
(***************************************************************************)
C18_ResetResumesFromBase ==
    /\ [][\A p \in Callers :
            (ppc[p] = "fetch" /\ ppc'[p] \in {"bind", "reset"}) =>
                /\ pport'[p] = PORT_COUNTER
                /\ (ppc'[p] = "reset") <=> (pport'[p] >= PORT_LIMIT)
                /\ PORT_COUNTER = PORT_BASE => (pport'[p] = PORT_BASE /\ ppc'[p] = "bind")]_vars
    /\ [][\A p \in Callers :
            (ppc[p] = "reset" /\ ppc'[p] # "reset") =>
                (PORT_COUNTER' = PORT_BASE /\ ppc'[p] = "fetch")]_vars
    /\ [][PORT_COUNTER' # PORT_COUNTER =>
            \E p \in Callers :
                \/ ppc[p] = "fetch" /\ ppc'[p] \in {"bind", "reset"}
                \/ ppc[p] = "reset" /\ ppc'[p] = "fetch"]_vars

\* a call that met the upper bound, reset the cursor and now probes the lower bound
C18_Witness ==
    \E p \in Callers :
        /\ ppc[p] = "bind"
        /\ pport[p] = PORT_BASE
        /\ pattempt[p] = 2
        /\ PORT_COUNTER = PORT_BASE + 1
        /\ pconc[p] = {}

(***************************************************************************)
(* C19: get_available_port terminates.  Every call returns; it counts each *)
(* cursor fetch and makes at most MaxAttempts of them; it returns Ok(p)    *)
(* only out of a bind of p that succeeded, p being the candidate it        *)
(* fetched and a port of the range; it returns the error only once its     *)
(* attempts are used up, none of them having bound a port.                 *)
(***************************************************************************)
C19_PortCallTerminates ==
    /\ \A p \in Callers : []<>(ppc[p] = "idle")
    /\ [](\A p \in Callers : pattempt[p] <= MaxAttempts)
    /\ [][\A p \in Callers :
            (ppc[p] = "fetch" /\ ppc'[p] \in {"bind", "reset"}) =>
                pattempt'[p] = pattempt[p] + 1]_vars
    /\ [][\A p \in Callers :
            (ppc[p] # "idle" /\ ppc'[p] = "idle") =>
                \/ /\ ppc[p] = "bind"
                   /\ pret'[p] = pport[p]
                   /\ pport[p] \in Ports
                   /\ pport[p] \notin busy
                \/ /\ ppc[p] = "fetch"
                   /\ pret'[p] = PortErr
                   /\ pattempt[p] = MaxAttempts]_vars

\* a call used up its attempts, every port being taken, and returned the error
C19_Witness ==
    \E p \in Callers :
        /\ ppc[p] = "idle"
        /\ pret[p] = PortErr
        /\ pattempt[p] = MaxAttempts
        /\ busy = Ports

(***************************************************************************)
(* C20: a get_available_port call that runs alone returns the error only   *)
(* if every port of the range is taken, whatever value the cursor started  *)
(* from.                                                                   *)
(***************************************************************************)
C20_ErrorOnlyIfRangeTaken ==
    (ppc[1] = "idle" /\ pret[1] = PortErr) => busy = Ports

(***************************************************************************)
(* C21: however often the capture script is executed in one loaded         *)
(* document, each of the five console methods carries exactly one wrapper  *)
(* once it has run, so every later console call of the page appends        *)
(* exactly one entry, its own, at the end of the stored array and calls    *)
(* the original method exactly once.                                       *)
(***************************************************************************)
C21_WrappedExactlyOnce ==
    /\ [](\A m \in ConsoleMethods : wraps[m] = IF nexec > 0 THEN 1 ELSE 0)
    /\ [][(npage' = npage + 1 /\ nexec > 0) =>
            /\ StoredLogs' = Append(StoredLogs, Captured(script[npage + 1], npage))
            /\ norig' = norig + 1]_vars

\* the script ran twice in one document and a console call made after that
\* is the one entry of the array
C21_Witness ==
    /\ nexec = 2
    /\ npage = 1
    /\ Len(StoredLogs) = 1
    /\ norig = 1

(***************************************************************************)
(* C22: when goto_path has returned Ok, the flag is set and the five       *)
(* methods are wrapped in the document the browser shows, whether or not   *)
(* the navigation replaced a document that had the hook; from then on,     *)
(* until the harness navigates or clears, a console call of the page is    *)
(* appended to the stored array.                                           *)
(***************************************************************************)
C22_HookInstalledAfterGoto ==
    /\ [](hret = "goto_ok" =>
             /\ installed
             /\ \A m \in ConsoleMethods : wraps[m] >= 1)
    /\ [][(hret = "goto_ok" /\ npage' = npage + 1) =>
            /\ Len(StoredLogs') = Len(StoredLogs) + 1
            /\ StoredLogs'[Len(StoredLogs')] = Captured(script[npage + 1], npage)]_vars

\* a goto_path whose navigation discarded the hooked document returned Ok, and
\* the console call the page made after it is in the array
C22_Witness ==
    /\ hret = "goto_ok"
    /\ hreset
    /\ nexec = 1
    /\ npage = 1
    /\ Len(StoredLogs) = 1

(***************************************************************************)
(* C23: the stored array changes in two ways only: a console call of the   *)
(* page appends its one entry at the end, and clear_console_logs empties   *)
(* it.  Neither step of goto_path (the navigation, the script) nor         *)
(* get_console_logs changes it, and get_console_logs reads it whole and    *)
(* in order.                                                               *)
(***************************************************************************)
C23_BufferOnlyAppendedOrCleared ==
    /\ [][StoredLogs' # StoredLogs =>
            \/ /\ npage' = npage + 1
               /\ StoredLogs' = Append(StoredLogs, Captured(script[npage + 1], npage))
            \/ /\ hpc = "idle" /\ hpc' = "idle"
               /\ hret' = "clear_ok"
               /\ StoredLogs' = <<>>]_vars
    /\ [][(hpc = "poll_sent" /\ hpc' = "poll_reply") =>
            (snapshot' = StoredLogs /\ StoredLogs' = StoredLogs)]_vars

\* goto_path has navigated away from the hooked document, is about to run the
\* script, and the entry captured in the old document is in the array
C23_Witness ==
    /\ hpc = "inject"
    /\ hreset
    /\ npage = 1
    /\ Len(StoredLogs) = 1

(***************************************************************************)
(* C24: clear_console_logs that returns Ok leaves the stored array empty   *)
(* and the hook in place; the array stays empty until the page's next      *)
(* console call, and get_console_logs returns what the array holds, the    *)
(* empty sequence for the empty array; the first console call after the    *)
(* clear is captured, as the only entry, although the key is gone.         *)
(***************************************************************************)
C24_ClearThenCaptureAgain ==
    /\ [][(nops' = nops + 1 /\ hpc' = "idle" /\ hret' = "clear_ok") =>
            /\ StoredLogs' = <<>>
            /\ ~storeKey'
            /\ installed' = installed /\ wraps' = wraps]_vars
    /\ [][(StoredLogs = <<>> /\ StoredLogs' # <<>>) => npage' = npage + 1]_vars
    /\ [][(hpc = "poll_sent" /\ hpc' = "poll_reply") => snapshot' = StoredLogs]_vars
    /\ [][(hpc = "poll_reply" /\ hpc' # "poll_reply" /\ ~wfailed' /\ wres' # "timeout") =>
            wseen' = <<Deserialize(snapshot)>>]_vars
    /\ [](Deserialize(<<>>) = <<>>)
    /\ [][(installed /\ ~storeKey /\ npage' = npage + 1) =>
            StoredLogs' = <<Captured(script[npage + 1], npage)>>]_vars

\* the harness cleared, and the page's second console call, made after that, is
\* the only entry of the array
C24_Witness ==
    /\ hret = "clear_ok"
    /\ installed
    /\ npage = 2
    /\ Len(StoredLogs) = 1
    /\ StoredLogs[1].timestamp = 1

(***************************************************************************)
(* C25: with WEBDRIVER set to a value that, lowercased, is none of         *)
(* chromedriver, chrome, geckodriver, gecko, Webdriver::new ends in the    *)
(* error without calling get_available_port (the cursor stays where it     *)
(* was) and without spawning a process.                                    *)
(***************************************************************************)
C25_Unrecognised ==
    /\ harness = "e2e"
    /\ envWebdriver # "unset"
    /\ ToLowercase(envWebdriver) \notin {"chromedriver", "chrome", "geckodriver", "gecko"}

C25_UnrecognisedFailsFast ==
    C25_Unrecognised =>
        /\ ncalls = 0
        /\ PORT_COUNTER = PORT_BASE
        /\ \A s \in Callers :
            /\ dchild[s] = "none"
            /\ dresult[s] \in {"none", "err_invalid"}

(***************************************************************************)
(* C26: for a non-empty slice, from_timings returns avg = floor(sum /      *)
(* count), min and max the smallest and the largest sample, and median the *)
(* middle one of the samples in ascending order for an odd count, the      *)
(* floor of the mean of the two middle ones for an even count;             *)
(* [10, 20, 30, 40] gives avg 25, min 10, max 40, median 25.               *)
(***************************************************************************)
\* the k-th smallest sample of t
KthSmallest(t, k) ==
    CHOOSE v \in {t[i] : i \in 1..Len(t)} :
        /\ Cardinality({i \in 1..Len(t) : t[i] < v}) < k
        /\ k <= Cardinality({i \in 1..Len(t) : t[i] <= v})

C27_EmptyGivesZeros ==
    (sin = <<>> /\ sout # <<>>) =>
        /\ DOMAIN sout[1] = {"avg", "min", "max", "median", "variance"}
        /\ sout[1].avg = 0
        /\ sout[1].min = 0
        /\ sout[1].max = 0
        /\ sout[1].median = 0
        /\ sout[1].variance.num = 0

\* from_timings was called on the empty slice and has returned
C27_Witness ==
    /\ sin = <<>>
    /\ sout # <<>>
    /\ "avg" \in DOMAIN sout[1]

(***************************************************************************)
(* C28: for a non-empty slice the square of the stddev returned is the     *)
(* population variance of the samples, the mean of the squared deviations  *)
(* from their mean, sum / N, whether or not that mean is an integer.  With *)
(* S the sum and Q the sum of squares of the N samples, that variance is   *)
(* (N * Q - S * S) / (N * N).                                              *)
(***************************************************************************)
RECURSIVE SumOfSquares(_)
SumOfSquares(t) == IF t = <<>> THEN 0 ELSE Head(t) * Head(t) + SumOfSquares(Tail(t))

C28_StddevIsPopulation ==
    (sin # <<>> /\ sout # <<>>) =>
        LET n == Len(sin)
            v == sout[1].variance
        IN  v.num * n * n = v.den * (n * SumOfSquares(sin) - SumSeq(sin) * SumSeq(sin))

(***************************************************************************)
(* C29: BenchmarkResults is append-only.  No step removes a name or        *)
(* changes, removes or reorders a sample already stored; add_timing(name,  *)
(* d) gives `name` a sequence if it had none and appends the whole         *)
(* milliseconds of d at its end, and touches no other name; print_summary  *)
(* and get_timings leave the map as it is.                                 *)
(***************************************************************************)
C29_AppendOnly ==
    /\ [][\A n \in DOMAIN timings :
            /\ n \in DOMAIN timings'
            /\ IsPrefix(timings[n], timings'[n])]_vars
    /\ [][nadds' = nadds + 1 =>
            LET name == ladd'[1]
                d == ladd'[2]
                old == IF name \in DOMAIN timings THEN timings[name] ELSE <<>>
                new == timings'[name]
            IN  /\ DOMAIN timings' = (DOMAIN timings) \cup {name}
                /\ Len(new) = Len(old) + 1
                /\ SubSeq(new, 1, Len(old)) = old
                /\ 2 * new[Len(new)] <= d /\ d < 2 * (new[Len(new)] + 1)
                /\ \A n \in DOMAIN timings : n # name => timings'[n] = timings[n]]_vars
    /\ [][nadds' = nadds => timings' = timings]_vars

\* two names; one holds a larger sample before a smaller one, and
\* print_summary has printed the statistics of both
C29_Witness ==
    /\ DOMAIN timings = BenchNames
    /\ timings["connect"] = <<1, 0>>
    /\ Len(printed) = 2
    /\ printed[1][1] = "connect"
    /\ printed[1][2].min = 0
    /\ printed[1][2].max = 1

(***************************************************************************)
(* C30: cucumber_test hands to Cucumber exactly the entries whose          *)
(* extension is `feature`, in the order read, and no other; the run of a   *)
(* file in which a scenario failed or was skipped ends the process, so no  *)
(* later file is run.                                                      *)
(* As stated: it returns Ok only if no file it ran had a failed or a       *)
(* skipped scenario.                                                       *)
(* As amended: it returns Ok only if no file it ran had a failed scenario  *)
(* or a skipped one that is not tagged @allow.skipped; a skip in a         *)
(* scenario tagged @allow.skipped does not end the process.                *)
(***************************************************************************)
\* the entries read so far whose extension is `feature`, the one about to be
\* run left out
FeaturesRead ==
    SelectSeq([i \in 1..rpos |-> i],
              LAMBDA i : entries[i].ext = "feature" /\ ~(rpc = "run" /\ i = rpos))

Handshakes(reqs) == Len(SelectSeq(reqs, LAMBDA r : r = "Handshake"))

StopPending(c) ==
    \/ InClosed(c)
    \/ \E i \in 1..Len(ws.wsIn[c]) : ws.wsIn[c][i] \in {"Disconnect", "Err"}

\* the backend took the head of its stream in this step
Took(c) == ws.bpc[c] = "serving" /\ ws.wsIn[c] # <<>> /\ ws'.wsIn[c] = Tail(ws.wsIn[c])

C31_ServeStopsAtFirstEnd ==
    /\ [][\A c \in Conns :
            ws'.bhandled[c] # ws.bhandled[c] =>
                /\ Took(c)
                /\ ws'.bhandled[c] = Append(ws.bhandled[c], Head(ws.wsIn[c]))]_vars
    /\ [][\A c \in Conns :
            Took(c) =>
                /\ ws'.bpc[c] = "done" <=> Head(ws.wsIn[c]) \in {"Disconnect", "Err"}
                /\ Head(ws.wsIn[c]) # "Err" => ws'.bhandled[c] = Append(ws.bhandled[c], Head(ws.wsIn[c]))]_vars
    /\ [][\A c \in Conns :
            (ws.bpc[c] = "serving" /\ ws'.bpc[c] = "done" /\ ~Took(c)) =>
                ws.wsIn[c] = <<>> /\ InClosed(c)]_vars
    /\ [][\A c \in Conns :
            ws.bpc[c] = "done" =>
                /\ ws'.bpc[c] = "done"
                /\ ws'.bhandled[c] = ws.bhandled[c]
                /\ ws'.bsent[c] = ws.bsent[c]
                /\ Len(ws'.wsOut[c]) <= Len(ws.wsOut[c]) \/ ws'.wsOut[c] = Append(ws.wsOut[c], "OtherErr")]_vars
    /\ [][\A c \in Conns :
            Took(c) =>
                IF Head(ws.wsIn[c]) = "Handshake" /\ ReceiverAlive(c)
                THEN /\ ws'.wsOut[c] = Append(ws.wsOut[c], "HandshakeResponse")
                     /\ ws'.bsent[c] = ws.bsent[c] + 1
                ELSE /\ ws'.wsOut[c] = ws.wsOut[c]
                     /\ ws'.bsent[c] = ws.bsent[c]]_vars
    /\ [](\A c \in Conns : ws.bsent[c] <= Handshakes(ws.bhandled[c]))
    /\ \A c \in Conns : (ws.bpc[c] = "serving" /\ StopPending(c)) ~> (ws.bpc[c] = "done")

\* as first read: every Handshake handled has put its response on the channel
C31_OneResponsePerHandshake == \A c \in Conns : ws.bsent[c] = Handshakes(ws.bhandled[c])

\* the backend answered the Handshake, returned at the Disconnect, and the
\* request sent after it stays in the stream
C31_Witness ==
    /\ ws.bpc[1] = "done"
    /\ ws.bhandled[1] = <<"Handshake", "Disconnect">>
    /\ ws.bsent[1] = 1
    /\ ws.wsIn[1] = <<"Handshake">>


(***************************************************************************)
(* C32: the manager's tx is Some whenever is_connected is true, and None   *)
(* once disconnect() has returned, until the next connect(): a send()      *)
(* made then returns "Connection not available" and queues nothing.        *)
(***************************************************************************)
C32_TxNoneWhenDisconnected ==
    /\ [](ws.is_connected => ws.wsTx # NoConn)
    /\ [](ws.wsDisc => ws.wsTx = NoConn)
    /\ [][(ws.wsDisc /\ ws'.nwsops = ws.nwsops + 1 /\ ws'.wsLast = "send") =>
            /\ ws'.wsRet = "not_available"
            /\ ws'.wsIn = ws.wsIn]_vars

\* the half of it that the code keeps
C32_TxSomeWhenConnected == ws.is_connected => ws.wsTx # NoConn


(***************************************************************************)
(* C37: from a call of disconnect() until the next call of connect(),      *)
(* is_connected is false, whatever the listening task receives meanwhile.  *)
(***************************************************************************)
C37_StaysDisconnected == ws.wsDisc => ~ws.is_connected

(***************************************************************************)
(* C38: when the listening task of the latest connect() has ended,         *)
(* is_connected is false.                                                  *)
(***************************************************************************)
C38_TaskEndedMeansDisconnected ==
    (ws.nconn > 0 /\ ws.lpc[ws.nconn] = "ended") => ~ws.is_connected


(***************************************************************************)
(* C39: every name in the map of a BenchmarkResults has at least one       *)
(* sample; print_summary prints statistics for every name, never "No       *)
(* data"; get_timings returns None for a name without a recorded timing    *)
(* and Some of a non-empty slice for every other name.                     *)
(***************************************************************************)
C39_NoEmptyEntry ==
    /\ [](\A n \in DOMAIN timings : timings[n] # <<>>)
    /\ [](\A i \in 1..Len(printed) : DOMAIN printed[i][2] # DOMAIN NoData)
    /\ [](bout # << <<>> >>)
    /\ [][bname' # bname \/ bout' # bout =>
            (bout' = <<>> <=> bname' \notin DOMAIN timings)]_vars

\* "connect" has a sample and was reported; get_timings("num") returned None
C39_Witness ==
    /\ DOMAIN timings = {"connect"}
    /\ Len(printed) = 1
    /\ printed[1][1] = "connect"
    /\ bname = "num"
    /\ bout = <<>>


(***************************************************************************)
(* C33: when start returns Ok, no step has failed, the results hold for    *)
(* each name of the template exactly `iteration` samples, the i-th being   *)
(* the elapsed time of iteration i in whole milliseconds, and no other     *)
(* name; every sample was added after its wait had returned Ok and the     *)
(* clear after it had returned Ok.  When a step fails, start returns that  *)
(* error at once and hands out no results; it returns an error in no       *)
(* other case.                                                             *)
(***************************************************************************)
MeasuredFor(n) == SelectSeq(bstart.kseq, LAMBDA e : e.name = n)

NamesOf(mode) == {IterationNames(mode)[j] : j \in 1..Len(IterationNames(mode))}

C33_AllSamplesOrError ==
    /\ [](bstart.kres = "ok" =>
            /\ bstart.kfail = "none"
            /\ bstart.kout # <<>>
            /\ DOMAIN bstart.kout[1] = (IF bstart.kiter = 0 THEN {} ELSE NamesOf(bstart.kmode))
            /\ \A n \in DOMAIN bstart.kout[1] :
                  /\ Len(bstart.kout[1][n]) = bstart.kiter
                  /\ Len(MeasuredFor(n)) = bstart.kiter
                  /\ \A i \in 1..bstart.kiter :
                        /\ MeasuredFor(n)[i].i = i
                        /\ bstart.kout[1][n][i] = AsMillis(MeasuredFor(n)[i].el)
            /\ bstart.kwaits = bstart.kiter * Len(IterationNames(bstart.kmode))
            /\ bstart.kclears = bstart.kwaits)
    /\ [][Len(bstart'.kseq) # Len(bstart.kseq) =>
            /\ Len(bstart'.kseq) = Len(bstart.kseq) + 1
            /\ bstart.kwaits = bstart.kclears + 1
            /\ bstart'.kclears = bstart.kclears + 1
            /\ bstart'.kwaits = bstart.kwaits]_vars
    /\ [](bstart.kfail # "none" => (bstart.kpc = "done" /\ bstart.kres = "err" /\ bstart.kout = <<>>))
    /\ [](bstart.kres = "err" => bstart.kfail # "none")
    /\ [](bstart.kpc = "done" <=> bstart.kres # "none")

\* two iterations of the websocket template ended well: connect took 1 ms, then 0 ms
C33_Witness ==
    /\ bstart.kres = "ok"
    /\ bstart.kmode = "ws"
    /\ bstart.kiter = 2
    /\ bstart.kout[1]["connect"] = <<1, 0>>
    /\ Len(bstart.kout[1]["disconnect"]) = 2


(***************************************************************************)
(* C34: when serve_and_wait returns Ok the server address is already       *)
(* stored: the step that sends the readiness signal finds the cell full    *)
(* and leaves it alone, so a get_server_addr (AppWorld::new) that starts   *)
(* after the Ok never panics and returns exactly the address the server    *)
(* task listens on.                                                        *)
(***************************************************************************)
C34_StoredAtSignal ==
    \A c \in Servers :
        (spc[c] = "send" /\ spc'[c] = "serve") =>
            /\ ~GetPanics(SERVER_ADDR)
            /\ SERVER_ADDR' = SERVER_ADDR

C34_ReadAfterOk ==
    \A c \in Servers :
        /\ mres[c] = "ok" =>
              /\ ~GetPanics(SERVER_ADDR)
              /\ listener[c] = SERVER_ADDR
        /\ ares[c] # "panic"
        /\ ares[c] = "got" =>
              /\ aval[c] \in Ports
              /\ aval[c] = listener[c]

C34_AddrReadyAtOk == []C34_ReadAfterOk /\ [][C34_StoredAtSignal]_vars

C34_Witness ==
    \E c \in Servers :
        /\ mres[c] = "ok"
        /\ apc[c] = "idle"
        /\ ares[c] = "got"
        /\ aval[c] = listener[c]


(***************************************************************************)
(* C35: once a server address is stored, a serve_and_wait call that starts *)
(* afterwards never returns Ok: no readiness signal is sent for it and its  *)
(* server task never gets past set_server_addr, where it panics unless it  *)
(* ended before (no frontend, no free port, aborted); the first server may  *)
(* be running or gone; the stored address keeps its first value.           *)
(***************************************************************************)
PastSet(c) == spc[c] \in {"setup", "bind", "send", "serve", "serving"}

NeverReady(c) ==
    /\ mres[c] # "ok"
    /\ tx[c] \notin {"sent", "failed"}
    /\ ~PastSet(c)
    /\ listener[c] = NoPort
    /\ spc[c] = "panicked" => tx[c] = "dropped"

C35_AddrKept == SERVER_ADDR # NoPort => SERVER_ADDR' = SERVER_ADDR

C35_LaterCallsFail ==
    /\ [](\A c \in Again : late[c] => NeverReady(c))
    /\ [][C35_AddrKept]_vars

\* as stated: the later call fails because its server task panics; read for
\* the calls that spawned a task, once that task is over
C35_LaterCallsPanic ==
    \A c \in Again :
        late[c] =>
            /\ mres[c] # "ok"
            /\ spc[c] \in {"ended", "cancelled", "panicked"} => spc[c] = "panicked"

C35_Witness ==
    \E b, c \in Again :
        /\ b < c
        /\ late[c]
        /\ mres[b] = "ok"
        /\ spc[b] = "serving"
        /\ mres[c] = "err_crashed"
        /\ spc[c] = "panicked"
        /\ SERVER_ADDR = listener[b]

C35_WitnessFirstGone ==
    \E b, c \in Again :
        /\ b < c
        /\ spc[b] = "cancelled"
        /\ late[c]
        /\ spc[c] = "panicked"


(***************************************************************************)
(* C36: clear_console_logs removes every entry the array holds, the ones   *)
(* the page appended after the poll on which wait_for_console_logs matched *)
(* included: an entry a clear removed is not in the array afterwards and   *)
(* is in no array a later get_console_logs reads; no entry, returned by a  *)
(* poll or not, survives a clear.                                          *)
(***************************************************************************)
InArray(e, arr) == \E i \in 1..Len(arr) : arr[i] = e

NoneGone(arr) == \A i \in 1..Len(hgone) : ~InArray(hgone[i], arr)

C36_ClearTakesAll == (storeKey /\ ~storeKey') => (StoredLogs' = <<>> /\ hgone' = hgone \o store)

C36_LaterGetClean == (hpc = "poll_sent" /\ hpc' = "poll_reply") => NoneGone(snapshot')

C36_LaterWaitClean ==
    (hpc = "poll_reply" /\ hpc' # "poll_reply" /\ ~wfailed' /\ wres' # "timeout") =>
        /\ wseen' = <<Deserialize(snapshot)>>
        /\ NoneGone(snapshot)

C36_ClearedNeverSeenAgain ==
    /\ [](NoneGone(StoredLogs))
    /\ [](\A i \in 1..Len(hunseen) : InArray(hunseen[i], hgone))
    /\ [][C36_ClearTakesAll]_vars
    /\ [][C36_LaterGetClean]_vars
    /\ [][C36_LaterWaitClean]_vars

\* the page logged after the poll that matched, the clear took that entry,
\* and a later poll has read the array
C36_Witness ==
    /\ hunseen # <<>>
    /\ npolls > 0
    /\ hpc = "poll_reply"
    /\ NoneGone(snapshot)
    /\ ~InArray(hunseen[1], snapshot)

=========================================================================
